---- MODULE Spec2Model ----
(***************************************************************************)
(* dedupler: the catalog store (src/db.py, class Database) and the scanner *)
(* (src/scanner.py, class Scanner) as a state machine.                     *)
(*                                                                         *)
(* The three tables are the state.  dirs and files are sequences indexed   *)
(* by rowid (rows are never deleted, so rowids are 1..Len); duplicates is  *)
(* a set of rows, its rowid assigned as SQLite does for an INTEGER PRIMARY *)
(* KEY without AUTOINCREMENT: largest rowid in the table plus one.         *)
(*                                                                         *)
(* A hash is a sequence of strings.  md5 is modelled as an injective       *)
(* wrapper (collisions of the digest itself are not modelled), so the      *)
(* hash of a directory is the bracketed newline-join of the digests of its *)
(* children.  SQL NULL in a text column and Python's '' are both <<>>;     *)
(* no operation of the program is ever given or computes an empty digest.  *)
(***************************************************************************)
EXTENDS Integers, Sequences, FiniteSets, TLC

\* ---- bounds of the model ----
MaxDirs == 4
MaxFiles == 2
ScanDirs == 2
ScanFiles == 3
MaxRuns == 2
MaxDupId == 3
MaxNodes == 4
MaxIds == 2

\* ---- program constants ----
SmallLimit == 1024

NULL == 0
NoHash == << >>

Sizes == {50, 3000}
HashVals == { <<"h1">>, <<"h2">> }
DirHashVals == HashVals \cup { <<"h3">> }

VARIABLES dirs, files, dups, rootDirID, last, exc,
          dir_stack, pc, todo, cur, curFiles, runs, disk, visited, fullRead,
          tree, stream, store, obj, in_transaction, begun, scope

tables == <<dirs, files, dups>>
traversal == <<tree, stream>>
orm == <<store, obj>>
connection == <<in_transaction, begun, scope>>
scanner == <<dir_stack, pc, todo, cur, curFiles, runs, disk, visited, fullRead, traversal>>
vars == <<dirs, files, dups, rootDirID, last, exc,
          dir_stack, pc, todo, cur, curFiles, runs, disk, visited, fullRead,
          tree, stream, store, obj, in_transaction, begun, scope>>

\* ---- helpers ----
SetMin(S) == CHOOSE x \in S : \A y \in S : x <= y
SetMax(S) == CHOOSE x \in S : \A y \in S : y <= x

\* the value of an expression that is evaluated once: Only({e(x) : x \in {v}})
Only(S) == CHOOSE x \in S : TRUE

DB(d, f, u) == [dirs |-> d, files |-> f, dups |-> u]

NoExc == [kind |-> "none", id |-> NULL, path |-> NULL, dir_id |-> NULL,
          has_hash_complete |-> FALSE]

\* a collision that reports the directory as the row and the row as the directory
swappedCollision(id, path, dir_id, has_hash_complete) ==
    [kind |-> "PartialHashCollision", id |-> dir_id, path |-> path,
     dir_id |-> id, has_hash_complete |-> has_hash_complete]

PartialHashCollision(id, path, dir_id, has_hash_complete) ==
    [kind |-> "PartialHashCollision", id |-> id, path |-> path,
     dir_id |-> dir_id, has_hash_complete |-> has_hash_complete]

Raise(kind) == [NoExc EXCEPT !.kind = kind]

Result(db, e) == [db |-> db, exc |-> e]

\* ---- the store's statements ----

\* cursor.lastrowid after an INSERT into duplicates
lastRowID(rows) == IF rows = {} THEN 1 ELSE SetMax({r.id : r \in rows}) + 1

\* a column that takes the parameter, NULL or not
overwrite(new, old, null) == new

\* COALESCE(?, column)
COALESCE(new, old, null) == IF new # null THEN new ELSE old

sqlInsertDuplicate(db, type) ==
    [db EXCEPT !.dups = db.dups \cup {[id |-> lastRowID(db.dups), type |-> type]}]

sqlUpdateDir(db, id, hash, dup_id) ==
    [db EXCEPT !.dirs[id].hash = COALESCE(hash, @, NoHash),
               !.dirs[id].duplicate_id = COALESCE(dup_id, @, NULL)]

\* a store that leaves duplicate_id as it is
keepsDupID(db, ids) == db

sqlDirRemoveDupID(db, ids) ==
    [db EXCEPT !.dirs = [i \in 1..Len(db.dirs) |->
        IF i \in ids THEN [db.dirs[i] EXCEPT !.duplicate_id = NULL] ELSE db.dirs[i]]]

sqlUpdateFile(db, id, hash, hash_complete, dup_id) ==
    [db EXCEPT !.files[id].hash = COALESCE(hash, @, NoHash),
               !.files[id].hash_complete = COALESCE(hash_complete, @, NoHash),
               !.files[id].duplicate_id = COALESCE(dup_id, @, NULL)]

sqlGetDirsFromDupID(db, dup_id) ==
    {i \in 1..Len(db.dirs) : db.dirs[i].duplicate_id = dup_id}

\* a probe that finds no directory of the hash
findsNoDir(db, hash) == NULL

\* SELECT ... FROM dirs WHERE hash = ?, first row: the index on hash yields the
\* rows of one hash in rowid order.
sqlFindDupDirFromHash(db, hash) ==
    LET m == {i \in 1..Len(db.dirs) : db.dirs[i].hash # NoHash /\ db.dirs[i].hash = hash}
    IN IF m = {} THEN NULL ELSE SetMin(m)

\* SELECT ... FROM files WHERE size = ? AND (hash = ? OR hash_complete = ?) LIMIT 1.
\* A NULL parameter matches nothing; every caller passes exactly one of the two
\* hashes, and either index yields the rows of one hash in rowid order.
seqGetDulpFile(db, size, hash, hash_complete) ==
    LET m == {i \in 1..Len(db.files) :
                /\ db.files[i].size = size
                /\ \/ hash # NoHash /\ db.files[i].hash = hash
                   \/ hash_complete # NoHash /\ db.files[i].hash_complete = hash_complete}
    IN IF m = {} THEN NULL ELSE SetMin(m)

\* rows that still reference a duplicates row (FOREIGN KEY ... REFERENCES duplicates)
Referenced(db, dup_id) ==
    \/ \E i \in 1..Len(db.dirs) : db.dirs[i].duplicate_id = dup_id
    \/ \E i \in 1..Len(db.files) : db.files[i].duplicate_id = dup_id

sqlRemoveDuplicate(db, id) ==
    [db EXCEPT !.dups = {r \in db.dups : r.id # id}]


\* ---- Database: inserts (src/db.py 233-250) ----

DirRow(path, parent_id) ==
    [path |-> path, parent_id |-> parent_id, hash |-> NoHash, duplicate_id |-> NULL]

FileRow(path, size, dir_id) ==
    [path |-> path, size |-> size, dir_id |-> dir_id, hash |-> NoHash,
     hash_complete |-> NoHash, duplicate_id |-> NULL]

\* INSERT INTO dirs: path is UNIQUE, parent_id references dirs(id); the
\* reference is checked when the statement ends, with the new row in the
\* table, so the rowid that the new row receives is accepted as its parent
sqlInsertDir(db, path, parent_id) ==
    IF \/ \E i \in 1..Len(db.dirs) : db.dirs[i].path = path
       \/ parent_id # NULL /\ parent_id \notin 1..(Len(db.dirs) + 1)
    THEN Result(db, Raise("IntegrityError"))
    ELSE Result([db EXCEPT !.dirs = Append(@, DirRow(path, parent_id))], NoExc)

\* INSERT INTO files: path is UNIQUE, dir_id is NOT NULL and references dirs(id)
sqlInsertFile(db, path, size, dir_id) ==
    IF \/ \E i \in 1..Len(db.files) : db.files[i].path = path
       \/ dir_id \notin 1..Len(db.dirs)
    THEN Result(db, Raise("IntegrityError"))
    ELSE Result([db EXCEPT !.files = Append(@, FileRow(path, size, dir_id))], NoExc)

setRootDir(db, root_path) == sqlInsertDir(db, root_path, NULL)

\* a store that inserts without looking at the parent id
insertUnchecked(db, path, parent_id) == sqlInsertDir(db, path, parent_id)

insertDir(db, path, parent_id) ==
    IF parent_id = NULL THEN Result(db, Raise("NoRootDirException"))
    ELSE sqlInsertDir(db, path, parent_id)

insertFile(db, path, size, dir_id) ==
    IF dir_id = NULL THEN Result(db, Raise("NoRootDirException"))
    ELSE sqlInsertFile(db, path, size, dir_id)

\* ---- Database.updateDirHash (src/db.py 252-282) ----

\* a store without the early return
neverUnchanged(old_hash, hash) == FALSE

\* "If hash has not changed, do nothing"
hashUnchanged(old_hash, hash) == old_hash = hash

\* a store that never removes the entry in duplicates
neverCollapses(res) == FALSE

\* "If there's only 2 dirs with same old_dup_id, remove the entry in duplicates table"
groupCollapses(res) == Cardinality(res) = 2

\* a store that takes every match for a fresh duplicate
alwaysFresh(match_id, dup_id) == match_id # NULL

\* a store that never detects a fresh duplicate: no group is ever created
neverFresh(match_id, dup_id) == FALSE

\* "Freshly detected duplicate": a matching row that is in no group yet
freshDuplicate(match_id, dup_id) == match_id # NULL /\ dup_id = NULL

updateDirHash(db, id, hash) ==
    LET old_hash == db.dirs[id].hash
        old_dup_id == db.dirs[id].duplicate_id
        res == IF old_dup_id # NULL THEN sqlGetDirsFromDupID(db, old_dup_id) ELSE {}
        collapse == old_dup_id # NULL /\ groupCollapses(res)
        cleared == IF old_dup_id = NULL THEN db
                   ELSE IF collapse THEN sqlDirRemoveDupID(db, res)
                   ELSE sqlDirRemoveDupID(db, {id})
        db1 == IF collapse THEN sqlRemoveDuplicate(cleared, old_dup_id) ELSE cleared
        dir_id == sqlFindDupDirFromHash(db1, hash)
        dup_id == IF dir_id = NULL THEN NULL ELSE db1.dirs[dir_id].duplicate_id
        fresh == freshDuplicate(dir_id, dup_id)
        new_dup == IF fresh THEN lastRowID(db1.dups) ELSE dup_id
        db2 == IF fresh
               THEN sqlUpdateDir(sqlInsertDuplicate(db1, "dir"), dir_id, NoHash, new_dup)
               ELSE db1
    IN IF hashUnchanged(old_hash, hash) THEN Result(db, NoExc)
       ELSE IF collapse /\ Referenced(cleared, old_dup_id)
            THEN Result(db, Raise("IntegrityError"))   \* DELETE fails, ROLLBACK
       ELSE Result(sqlUpdateDir(db2, id, hash, new_dup), NoExc)

\* ---- Database.updateFileHash (src/db.py 284-319) ----

\* a store that has no rule for small files
noSmallRule(size, hash, hash_complete) == hash_complete

\* "If file size < 1024, hash_complete will be set to the same value as hash"
smallRule(size, hash, hash_complete) ==
    IF size < SmallLimit THEN hash ELSE hash_complete

updateFileHash(db, id, hash, hash_complete_arg) ==
    LET path == db.files[id].path
        size == db.files[id].size
        hash_complete == smallRule(size, hash, hash_complete_arg)
        res == seqGetDulpFile(db, size, hash, NoHash)
        file_id == seqGetDulpFile(db, size, NoHash, hash_complete)
        dup_id == IF file_id = NULL THEN NULL ELSE db.files[file_id].duplicate_id
        fresh == freshDuplicate(file_id, dup_id)
        new_dup == IF fresh THEN lastRowID(db.dups) ELSE dup_id
        db1 == IF fresh
               THEN sqlUpdateFile(sqlInsertDuplicate(db, "file"), file_id, NoHash, NoHash, new_dup)
               ELSE db
    IN IF hash_complete = NoHash
       THEN IF res # NULL
            THEN Result(db, PartialHashCollision(res, db.files[res].path,
                              db.files[res].dir_id, db.files[res].hash_complete # NoHash))
            ELSE Result(sqlUpdateFile(db, id, hash, NoHash, NULL), NoExc)
       ELSE Result(sqlUpdateFile(db1, id, hash, hash_complete, new_dup), NoExc)

\* ---- Database.updateFileCompleteHash (src/db.py 321-324) ----
updateFileCompleteHash(db, id, hash_complete) ==
    [db EXCEPT !.files[id].hash_complete = hash_complete]

getDirHash(db, id) == db.dirs[id].hash

getDirParentID(db, id) == db.dirs[id].parent_id

\* ---- Database.getChildrenHashes (src/db.py 342-355) ----

\* hash_complete or hash or ''
digest(hash, hash_complete) ==
    IF hash_complete # NoHash THEN hash_complete ELSE hash

\* the rows of the UNION ALL with rowid >= i, ORDER BY id: at equal ids the row
\* of the left SELECT (the file) comes first
RECURSIVE childrenFrom(_, _, _)
childrenFrom(db, id, i) ==
    IF i > Len(db.files) /\ i > Len(db.dirs) THEN << >>
    ELSE (IF i <= Len(db.files) /\ db.files[i].dir_id = id
          THEN << digest(db.files[i].hash, db.files[i].hash_complete) >> ELSE << >>)
      \o (IF i <= Len(db.dirs) /\ db.dirs[i].parent_id = id
          THEN << digest(db.dirs[i].hash, NoHash) >> ELSE << >>)
      \o childrenFrom(db, id, i + 1)

\* a store that returns the digest of every row of files, whatever its directory
everyFile(db, id) ==
    [i \in 1..Len(db.files) |-> digest(db.files[i].hash, db.files[i].hash_complete)]

\* the list that getChildrenHashes returns when the query has rows
getChildrenHashes(db, id) == childrenFrom(db, id, 1)

\* _sqlExecute returns None for a query without rows ("return res or None"), and
\* "for entry in res" then raises TypeError: a directory without children
noRows(db, id) ==
    /\ \A i \in 1..Len(db.files) : db.files[i].dir_id # id
    /\ \A j \in 1..Len(db.dirs) : db.dirs[j].parent_id # id

\* ---- Scanner.dir_hasher (src/scanner.py 46-49) ----

\* "\n".join(hashes)
RECURSIVE join(_)
join(hashes) ==
    IF hashes = << >> THEN << >>
    ELSE IF Len(hashes) = 1 THEN hashes[1]
    ELSE hashes[1] \o <<"\n">> \o join(Tail(hashes))

\* hashlib.md5(...).hexdigest(): injective, never empty
md5(s) == <<"md5(">> \o s \o <<")">>

dir_hasher(db, id) == md5(join(getChildrenHashes(db, id)))

\* ---- Scanner.dir_hash_update (src/scanner.py 51-56) ----

\* a scanner that goes on to every parent, hashed or not
alwaysPropagates(db, parent) == parent # NULL

\* "if parent is not None and self.db.getDirHash(parent) is not None"
propagates(db, parent) == parent # NULL /\ getDirHash(db, parent) # NoHash

\* a scanner that computes the hash of a directory once and leaves a stored
\* hash as it is
firstHashOnly(db, id) ==
    LET r == updateDirHash(db, id, dir_hasher(db, id))
    IN IF db.dirs[id].hash # NoHash
       THEN [db |-> db, exc |-> NoExc, visited |-> << >>]
       ELSE IF noRows(db, id)
       THEN [db |-> db, exc |-> Raise("TypeError"), visited |-> << >>]
       ELSE [db |-> r.db, exc |-> r.exc, visited |-> <<id>>]

RECURSIVE dir_hash_update(_, _)
dir_hash_update(db, id) ==
    LET r == updateDirHash(db, id, dir_hasher(db, id))
        parent == getDirParentID(r.db, id)
    IN IF noRows(db, id)
       THEN [db |-> db, exc |-> Raise("TypeError"), visited |-> << >>]
       ELSE IF r.exc.kind # "none" THEN [db |-> r.db, exc |-> r.exc, visited |-> <<id>>]
       ELSE IF propagates(r.db, parent)
            THEN LET u == dir_hash_update(r.db, parent)
                 IN [db |-> u.db, exc |-> u.exc, visited |-> <<id>> \o u.visited]
       ELSE [db |-> r.db, exc |-> NoExc, visited |-> <<id>>]


\* ---- state ----

\* the call that was made last, with the rows it read before writing
Call(op, id, hash, hash_complete, old_dup, members, match) ==
    [op |-> op, id |-> id, hash |-> hash, hash_complete |-> hash_complete,
     old_dup |-> old_dup, members |-> members, match |-> match]

NoCall == Call("none", NULL, NoHash, NoHash, NULL, 0, NULL)

db0 == DB(dirs, files, dups)

\* SELECT id FROM ... WHERE duplicate_id = ?: NULL equals nothing
DirMembers(d, dup_id) ==
    {i \in 1..Len(d) : dup_id # NULL /\ d[i].duplicate_id = dup_id}
FileMembers(f, dup_id) ==
    {i \in 1..Len(f) : dup_id # NULL /\ f[i].duplicate_id = dup_id}

\* Database() and initialize(): empty tables, no root; Scanner(): empty stack
\* no transaction scope of the store is being executed
NoScope == [op |-> "none", id |-> NULL, hash |-> NoHash, hash_complete |-> NoHash,
            at |-> "none"]

\* the tables read and written by core.py, before any insert
EmptyStore == [dirs |-> {}, files |-> {}]

\* no entity record has been built
NoObj == [cls |-> "none", id |-> NULL, path |-> NULL, parent_dir |-> NULL,
          hash |-> NoHash, updated |-> {}, deleted |-> FALSE]

Init ==
    /\ dirs = << >> /\ files = << >> /\ dups = {}
    /\ rootDirID = NULL
    /\ last = NoCall /\ exc = NoExc
    /\ dir_stack = << >> /\ pc = "idle"
    /\ todo = {} /\ cur = NULL /\ curFiles = {} /\ runs = 0
    /\ disk = << >> /\ visited = << >> /\ fullRead = << >>
    /\ tree = << >> /\ stream = << >>
    /\ store = EmptyStore /\ obj = NoObj
    /\ in_transaction = FALSE /\ begun = DB(<< >>, << >>, {}) /\ scope = NoScope

Store(r) == /\ dirs' = r.db.dirs /\ files' = r.db.files /\ dups' = r.db.dups
            /\ exc' = r.exc

\* ---- the catalog's operations, called directly ----

\* setRootDir(path): a path is a name, 1..n are the names in use
CallSetRootDir(path) ==
    /\ Len(dirs) < MaxDirs
    /\ LET r == setRootDir(db0, path)
       IN /\ Store(r)
          /\ rootDirID' = IF r.exc.kind = "none" THEN Len(r.db.dirs) ELSE rootDirID
    /\ last' = Call("setRootDir", path, NoHash, NoHash, NULL, 0, NULL)
    /\ UNCHANGED <<scanner, orm, connection>>

CallInsertDir(path, parent_id) ==
    /\ Len(dirs) < MaxDirs
    /\ Store(insertDir(db0, path, parent_id))
    /\ last' = Call("insertDir", path, NoHash, NoHash, NULL, 0, parent_id)
    /\ UNCHANGED <<rootDirID, scanner, orm, connection>>

CallInsertFile(path, size, dir_id) ==
    /\ Len(files) < MaxFiles
    /\ Store(insertFile(db0, path, size, dir_id))
    /\ last' = Call("insertFile", path, NoHash, NoHash, NULL, 0, dir_id)
    /\ UNCHANGED <<rootDirID, scanner, orm, connection>>

CallUpdateFileHash(id, hash, hash_complete) ==
    /\ id \in 1..Len(files)
    /\ Store(updateFileHash(db0, id, hash, hash_complete))
    /\ last' = Call("updateFileHash", id, hash, hash_complete,
                    files[id].duplicate_id,
                    Cardinality(FileMembers(files, files[id].duplicate_id)),
                    IF files[id].size >= SmallLimit /\ hash_complete = NoHash
                    THEN seqGetDulpFile(db0, files[id].size, hash, NoHash)
                    ELSE seqGetDulpFile(db0, files[id].size, NoHash,
                            IF files[id].size < SmallLimit THEN hash ELSE hash_complete))
    /\ UNCHANGED <<rootDirID, scanner, orm, connection>>

CallUpdateFileCompleteHash(id, hash_complete) ==
    /\ id \in 1..Len(files)
    /\ Store(Result(updateFileCompleteHash(db0, id, hash_complete), NoExc))
    /\ last' = Call("updateFileCompleteHash", id, NoHash, hash_complete, NULL, 0, NULL)
    /\ UNCHANGED <<rootDirID, scanner, orm, connection>>

\* The rowids of duplicates grow without limit as groups of directories are
\* deleted and created: a call that would assign a rowid above MaxDupId is left
\* out of the model.
CallUpdateDirHash(id, hash) ==
    /\ id \in 1..Len(dirs)
    /\ \A d \in updateDirHash(db0, id, hash).db.dups : d.id <= MaxDupId
    /\ Store(updateDirHash(db0, id, hash))
    /\ last' = Call("updateDirHash", id, hash, NoHash,
                    dirs[id].duplicate_id,
                    Cardinality(DirMembers(dirs, dirs[id].duplicate_id)),
                    sqlFindDupDirFromHash(db0, hash))
    /\ UNCHANGED <<rootDirID, scanner, orm, connection>>

\* Any sequence of calls on the dirs table, each with a new path or the path of
\* the first row: one root, set once or again with its own path, sub-directories
\* of it (and of None and of a missing directory), hashes from DirHashVals.
\* updateDirHash reads no parent_id: the shape of the tree is left to SpecScan.
NextDir ==
    \/ \E path \in {1, Len(dirs) + 1} :
            (rootDirID = NULL \/ path = 1) /\ CallSetRootDir(path)
    \/ \E path \in {1, Len(dirs) + 1}, parent_id \in {NULL, 1, Len(dirs) + 2} :
            CallInsertDir(path, parent_id)
    \/ \E id \in 1..Len(dirs), hash \in DirHashVals : CallUpdateDirHash(id, hash)

SpecDir == Init /\ [][NextDir]_vars

\* Any sequence of calls on the files table, the files in one root directory
\* (dir_id None and a missing directory included), hashes from HashVals.
NextFile ==
    \/ rootDirID = NULL /\ CallSetRootDir(1)
    \/ \E path \in {1, Len(files) + 1}, size \in Sizes, dir_id \in 0..(Len(dirs) + 1) :
            CallInsertFile(path, size, dir_id)
    \/ \E id \in 1..Len(files), hash \in HashVals, hash_complete \in HashVals \cup {NoHash} :
            CallUpdateFileHash(id, hash, hash_complete)
    \/ \E id \in 1..Len(files), hash_complete \in HashVals :
            CallUpdateFileCompleteHash(id, hash_complete)

SpecFile == Init /\ [][NextFile]_vars


\* ---- the files on disk and the hashers (src/hashers.py) ----

\* What a scanned file holds: its size, the digest of its first 1024 bytes, the
\* digest of all of it, and whether its suffix is an image suffix (then "partial"
\* is its image hash).  A file below 1024 bytes has one digest for both; two files
\* with the same full digest have the same size and partial digest.
Content(size, partial, full, image) ==
    [size |-> size, partial |-> partial, full |-> full, image |-> image]

Contents ==
    { Content(50, <<"a">>, <<"a">>, FALSE),
      Content(3000, <<"p">>, <<"fx">>, FALSE),
      Content(3000, <<"p">>, <<"fy">>, FALSE),
      Content(3000, <<"i">>, <<"i">>, TRUE) }

partial_hasher(dsk, path, size) == dsk[path].partial

\* a hasher that returns the empty string
emptyHasher(dsk, path) == NoHash

full_hasher(dsk, path) == dsk[path].full
image_hasher(dsk, path) == dsk[path].partial

\* ---- Scanner.hash, the body of the loop over the files (src/scanner.py 82-100) ----

StepResult(db, e, vis, reads) ==
    [db |-> db, exc |-> e, visited |-> vis, fullRead |-> reads]

\* a scanner that never adds the complete hash to the collided file
neverRepairs(e) == FALSE

\* "Add complete hash to collided file if not exists"
repairs(e) == ~e.has_hash_complete

\* "except DB.PartialHashCollision as e": the repair of the collided row and the
\* second call (src/scanner.py 92-100); each call is evaluated once
resubmit(db, dsk, fileId, e) ==
    LET filePath == db.files[fileId].path
        partial_hash == partial_hasher(dsk, filePath, db.files[fileId].size)
        full_hash == full_hasher(dsk, filePath)
        e_full_hash == full_hasher(dsk, e.path)
    IN IF repairs(e)
       THEN Only({ IF fixed.exc.kind # "none"
                   THEN StepResult(fixed.db, fixed.exc, fixed.visited, <<e.path>>)
                   ELSE Only({ StepResult(again.db, again.exc, fixed.visited,
                                          <<e.path, filePath>>) :
                               again \in {updateFileHash(fixed.db, fileId,
                                                         partial_hash, full_hash)} }) :
                   fixed \in { dir_hash_update(c, e.dir_id) :
                               c \in {updateFileCompleteHash(db, e.id, e_full_hash)} } })
       ELSE Only({ StepResult(retry.db, retry.exc, << >>, <<filePath>>) :
                   retry \in {updateFileHash(db, fileId, partial_hash, full_hash)} })

hash_file(db, dsk, fileId) ==
    LET filePath == db.files[fileId].path
        fileSize == db.files[fileId].size
        image_hash == image_hasher(dsk, filePath)
        partial_hash == partial_hasher(dsk, filePath, fileSize)
    IN IF dsk[filePath].image
       THEN Only({ StepResult(img.db, img.exc, << >>, << >>) :
                   img \in {updateFileHash(db, fileId, image_hash, image_hash)} })
       ELSE Only({ IF first.exc.kind # "PartialHashCollision"
                   THEN StepResult(first.db, first.exc, << >>, << >>)
                   ELSE resubmit(db, dsk, fileId, first.exc) :
                   first \in {updateFileHash(db, fileId, partial_hash, NoHash)} })

\* ---- Database.getDirs (src/db.py 358-373) ----

RECURSIVE depth(_, _)
depth(d, id) == IF d[id].parent_id = NULL THEN 1 ELSE depth(d, d[id].parent_id) + 1

\* the rows that may come next in ORDER BY depth DESC: the order of rows of equal
\* depth is not fixed by the query
deepest(d, ids) == {i \in ids : \A j \in ids : depth(d, j) <= depth(d, i)}

\* Database.getFilesInDir (src/db.py 376-385)
getFilesInDir(f, id) == {i \in 1..Len(f) : f[i].dir_id = id}

\* ---- Scanner: scan (src/scanner.py 25-44, 72-75) ----

\* a scanner that ignores dir_stack
alwaysRoot(stack, root) == root

current_dir_id(stack, root) ==
    IF stack = << >> THEN root ELSE stack[Len(stack)][1]

Step(op, id) == Call(op, id, NoHash, NoHash, NULL, 0, NULL)

\* scan(path): setRootDir, then the events of dir_dfs(path) one by one
ScanBegin ==
    /\ pc = "idle" /\ Len(dirs) < ScanDirs
    /\ LET r == setRootDir(db0, Len(dirs) + 1)
       IN /\ Store(r)
          /\ rootDirID' = Len(r.db.dirs)
    /\ pc' = "scan"
    /\ last' = Step("scan", Len(dirs) + 1)
    /\ visited' = << >> /\ fullRead' = << >>
    /\ UNCHANGED <<dir_stack, todo, cur, curFiles, runs, traversal, orm, connection, disk>>

\* ('dir', p): dir_handler(p)
ScanDir ==
    /\ pc = "scan" /\ Len(dirs) < ScanDirs
    /\ Store(insertDir(db0, Len(dirs) + 1, current_dir_id(dir_stack, rootDirID)))
    /\ dir_stack' = Append(dir_stack, <<Len(dirs) + 1, Len(dirs) + 1>>)
    /\ last' = Step("dir_handler", Len(dirs) + 1)
    /\ UNCHANGED <<rootDirID, pc, todo, cur, curFiles, runs, traversal, orm, connection, disk, visited, fullRead>>

\* dir_handler(p) on a Scanner whose scan() has not been called, as the tests of
\* dir_handler call it (src/test/test_scanner.py 62-68): the stack is empty and
\* no root is set; the push is not reached when insertDir raises
CallDirHandler ==
    /\ pc = "idle" /\ rootDirID = NULL /\ exc.kind = "none"
    /\ \E r \in {insertDir(db0, Len(dirs) + 1, current_dir_id(dir_stack, rootDirID))} :
          /\ Store(r)
          /\ dir_stack' = IF r.exc.kind = "none"
                          THEN Append(dir_stack, <<Len(dirs) + 1, Len(dirs) + 1>>)
                          ELSE dir_stack
    /\ last' = Step("dir_handler", Len(dirs) + 1)
    /\ UNCHANGED <<rootDirID, pc, todo, cur, curFiles, runs, traversal, orm, connection, disk, visited, fullRead>>

\* ('dir', None): dir_handler(None); dir_dfs emits it once for every ('dir', p)
ScanLeave ==
    /\ pc = "scan" /\ dir_stack # << >>
    /\ dir_stack' = SubSeq(dir_stack, 1, Len(dir_stack) - 1)
    /\ last' = Step("dir_handler", NULL)
    /\ UNCHANGED <<tables, exc, rootDirID, pc, todo, cur, curFiles, runs, traversal, orm, connection, disk,
                   visited, fullRead>>

\* ('file', p): file_handler(p), p a new file holding c
ScanFile(c) ==
    /\ pc = "scan" /\ Len(files) < ScanFiles
    /\ Store(insertFile(db0, Len(files) + 1, c.size, current_dir_id(dir_stack, rootDirID)))
    /\ disk' = Append(disk, c)
    /\ last' = Step("file_handler", Len(files) + 1)
    /\ UNCHANGED <<rootDirID, dir_stack, pc, todo, cur, curFiles, runs, traversal, orm, connection, visited, fullRead>>

\* a handler that returns instead of raising
ignoreSymlink(path) == NoExc

\* Scanner.symlink_handler (src/scanner.py 58-60)
symlink_handler(path) == Raise("SymlinkFound")

\* Scanner.handlerSwitch (src/scanner.py 62-70), the branches that are neither
\* 'dir' nor 'file'
handlerSwitch(type, path) ==
    IF type = "symlink" THEN symlink_handler(path) ELSE Raise("UnexpectedPathType")

\* ('symlink', p) or an event of a kind that handlerSwitch does not know: the
\* exception leaves the loop and scan(); the model does not follow a Scanner
\* whose scan() has raised any further
ScanFatal(type) ==
    /\ pc = "scan"
    /\ LET e == handlerSwitch(type, Len(files) + 1)
       IN /\ exc' = e
          /\ pc' = IF e.kind = "none" THEN "scan" ELSE "failed"
    /\ last' = Step(type, Len(files) + 1)
    /\ UNCHANGED <<tables, rootDirID, dir_stack, todo, cur, curFiles, runs, traversal, orm, connection, disk,
                   visited, fullRead>>

\* dir_dfs is exhausted: scan returns
ScanEnd ==
    /\ pc = "scan" /\ dir_stack = << >>
    /\ pc' = "idle"
    /\ last' = Step("scan", NULL)
    /\ UNCHANGED <<tables, exc, rootDirID, dir_stack, todo, cur, curFiles, runs, traversal, orm, connection, disk,
                   visited, fullRead>>

\* ---- Scanner: hash (src/scanner.py 77-102) ----

\* hash() is called: getDirs() reads every directory
HashBegin ==
    /\ pc = "idle" /\ runs < MaxRuns /\ Len(dirs) > 0
    /\ pc' = "hash" /\ runs' = runs + 1
    /\ todo' = 1..Len(dirs) /\ cur' = NULL /\ curFiles' = {}
    /\ last' = Step("hash", NULL)
    /\ visited' = << >> /\ fullRead' = << >>
    /\ UNCHANGED <<tables, exc, rootDirID, dir_stack, disk, traversal, orm, connection>>

\* the outer loop takes the next directory and reads its files
HashEnterDir(dirID) ==
    /\ pc = "hash" /\ cur = NULL /\ dirID \in deepest(dirs, todo)
    /\ cur' = dirID /\ todo' = todo \ {dirID}
    /\ curFiles' = getFilesInDir(files, dirID)
    /\ last' = Step("getFilesInDir", dirID)
    /\ visited' = << >> /\ fullRead' = << >>
    /\ UNCHANGED <<tables, exc, rootDirID, dir_stack, pc, runs, traversal, orm, connection, disk>>

\* the inner loop hashes the next file of the directory; an exception leaves hash()
HashFile ==
    /\ pc = "hash" /\ cur # NULL /\ curFiles # {}
    /\ \E fileId \in {SetMin(curFiles)} : \E r \in {hash_file(db0, disk, fileId)} :
          /\ Store(r)
          /\ visited' = r.visited /\ fullRead' = r.fullRead
          /\ curFiles' = curFiles \ {fileId}
          /\ last' = Step("hash_file", fileId)
          /\ pc' = IF r.exc.kind = "none" THEN "hash" ELSE "idle"
          /\ cur' = IF r.exc.kind = "none" THEN cur ELSE NULL
          /\ todo' = IF r.exc.kind = "none" THEN todo ELSE {}
    /\ UNCHANGED <<rootDirID, dir_stack, runs, traversal, orm, connection, disk>>

\* after the files of the directory: self.dir_hash_update(dirID)
HashLeaveDir ==
    /\ pc = "hash" /\ cur # NULL /\ curFiles = {}
    /\ LET r == dir_hash_update(db0, cur)
       IN /\ Store(r)
          /\ visited' = r.visited /\ fullRead' = << >>
          /\ pc' = IF r.exc.kind = "none" THEN "hash" ELSE "idle"
          /\ todo' = IF r.exc.kind = "none" THEN todo ELSE {}
    /\ last' = Step("dir_hash_update", cur)
    /\ cur' = NULL
    /\ UNCHANGED <<rootDirID, dir_stack, curFiles, runs, traversal, orm, connection, disk>>

\* getDirs() is exhausted: hash returns
HashEnd ==
    /\ pc = "hash" /\ cur = NULL /\ todo = {}
    /\ pc' = "idle"
    /\ last' = Step("hash", runs)
    /\ visited' = << >> /\ fullRead' = << >>
    /\ UNCHANGED <<tables, exc, rootDirID, dir_stack, todo, cur, curFiles, runs, traversal, orm, connection, disk>>

NextScan ==
    \/ CallDirHandler
    \/ ScanBegin
    \/ ScanDir
    \/ ScanLeave
    \/ \E c \in Contents : ScanFile(c)
    \/ \E type \in {"symlink", "unknown"} : ScanFatal(type)
    \/ ScanEnd
    \/ HashBegin
    \/ \E dirID \in todo : HashEnterDir(dirID)
    \/ HashFile
    \/ HashLeaveDir
    \/ HashEnd

SpecScan == Init /\ [][NextScan]_vars


\* ---- the tree on disk and fs_utlis.dir_dfs (src/fs_utlis.py 16-29) ----

\* an entry of the tree: a directory or a regular file in the directory parent.
\* Entries are named 1..n, entry 1 is the directory given to scan(); iterdir()
\* yields the entries of a directory in the order of their names, and a
\* directory is named before its entries, so every order of a finite tree is
\* the order of one of the trees.
Entry(kind, parent, size) == [kind |-> kind, parent |-> parent, size |-> size]

Entries ==
    { Entry("dir", p, 0) : p \in 0..(MaxNodes - 1) }
    \cup { Entry("file", p, z) : p \in 1..(MaxNodes - 1), z \in Sizes }

Trees ==
    UNION { { t \in [1..n -> Entries] :
                /\ t[1] = Entry("dir", NULL, 0)
                /\ \A k \in 2..n : /\ t[k].parent \in 1..(k - 1)
                                   /\ t[t[k].parent].kind = "dir" } :
            n \in 1..MaxNodes }

\* an event of the generator: (type, p), p = NULL for ('dir', None)
Event(type, p) == [type |-> type, p |-> p]

\* a generator that yields no ('dir', None)
noLeave(p) == << >>

\* "yield ('dir', None)" after the entries of p
leave(p) == << Event("dir", NULL) >>

\* the events for the entries of path that are named n or later
RECURSIVE dfsFrom(_, _, _)
dfsFrom(t, path, n) ==
    IF n > Len(t) THEN << >>
    ELSE (IF t[n].parent # path THEN << >>
          ELSE IF t[n].kind = "file" THEN << Event("file", n) >>
          ELSE << Event("dir", n) >> \o dfsFrom(t, n, n + 1) \o leave(n))
         \o dfsFrom(t, path, n + 1)

dir_dfs(t, path) == dfsFrom(t, path, path + 1)

\* ---- Scanner.scan over the events of dir_dfs (src/scanner.py 72-75) ----

\* a tree is on disk; nothing has been scanned
InitWalk ==
    /\ dirs = << >> /\ files = << >> /\ dups = {}
    /\ rootDirID = NULL
    /\ last = NoCall /\ exc = NoExc
    /\ dir_stack = << >> /\ pc = "idle"
    /\ todo = {} /\ cur = NULL /\ curFiles = {} /\ runs = 0
    /\ disk = << >> /\ visited = << >> /\ fullRead = << >>
    /\ tree \in Trees /\ stream = << >>
    /\ store = EmptyStore /\ obj = NoObj
    /\ in_transaction = FALSE /\ begun = DB(<< >>, << >>, {}) /\ scope = NoScope

\* scan(path): setRootDir(str(path)); the generator dir_dfs(path) is created
WalkBegin ==
    /\ pc = "idle" /\ rootDirID = NULL
    /\ LET r == setRootDir(db0, 1)
       IN /\ Store(r)
          /\ rootDirID' = Len(r.db.dirs)
    /\ stream' = dir_dfs(tree, 1)
    /\ pc' = "scan"
    /\ last' = Step("scan", 1)
    /\ UNCHANGED <<dir_stack, todo, cur, curFiles, runs, disk, visited, fullRead, tree, orm, connection>>

\* the next event is ('dir', p): dir_handler(p) inserts and pushes
WalkDir ==
    /\ pc = "scan" /\ stream # << >>
    /\ Head(stream).type = "dir" /\ Head(stream).p # NULL
    /\ \E r \in {insertDir(db0, Head(stream).p, current_dir_id(dir_stack, rootDirID))} :
          /\ Store(r)
          /\ dir_stack' = IF r.exc.kind = "none"
                          THEN Append(dir_stack, <<Len(dirs) + 1, Head(stream).p>>)
                          ELSE dir_stack
          /\ pc' = IF r.exc.kind = "none" THEN "scan" ELSE "failed"
    /\ stream' = Tail(stream)
    /\ last' = Step("dir_handler", Head(stream).p)
    /\ UNCHANGED <<rootDirID, todo, cur, curFiles, runs, disk, visited, fullRead, tree, orm, connection>>

\* the next event is ('dir', None): dir_handler(None) pops; list.pop() of an
\* empty list raises IndexError
WalkLeave ==
    /\ pc = "scan" /\ stream # << >>
    /\ Head(stream) = Event("dir", NULL)
    /\ IF dir_stack = << >>
       THEN /\ exc' = Raise("IndexError") /\ pc' = "failed"
            /\ dir_stack' = dir_stack
       ELSE /\ exc' = NoExc /\ pc' = "scan"
            /\ dir_stack' = SubSeq(dir_stack, 1, Len(dir_stack) - 1)
    /\ stream' = Tail(stream)
    /\ last' = Step("dir_handler", NULL)
    /\ UNCHANGED <<tables, rootDirID, todo, cur, curFiles, runs, disk, visited,
                   fullRead, tree, orm, connection>>

\* the next event is ('file', p): file_handler(p) inserts p with its size
WalkFile ==
    /\ pc = "scan" /\ stream # << >>
    /\ Head(stream).type = "file"
    /\ \E r \in {insertFile(db0, Head(stream).p, tree[Head(stream).p].size,
                            current_dir_id(dir_stack, rootDirID))} :
          /\ Store(r)
          /\ pc' = IF r.exc.kind = "none" THEN "scan" ELSE "failed"
    /\ stream' = Tail(stream)
    /\ last' = Step("file_handler", Head(stream).p)
    /\ UNCHANGED <<rootDirID, dir_stack, todo, cur, curFiles, runs, disk, visited,
                   fullRead, tree, orm, connection>>

\* the generator is exhausted: scan returns
WalkEnd ==
    /\ pc = "scan" /\ stream = << >>
    /\ pc' = "idle"
    /\ last' = Step("scan", NULL)
    /\ UNCHANGED <<tables, exc, rootDirID, dir_stack, todo, cur, curFiles, runs, disk,
                   visited, fullRead, traversal, orm, connection>>

\* the database paths given to Scanner(): the file of the catalog in use,
\* which exists, or ':memory:'
DbPaths == {"existing", ":memory:"}

\* Scanner(db_path): Database(db_path) connects, initialize() drops the three
\* tables if they exist and creates them again; the new Database has no root
\* and the new Scanner an empty dir_stack
NewScanner(db_path) ==
    /\ pc = "idle"
    /\ dirs' = << >> /\ files' = << >> /\ dups' = {}
    /\ rootDirID' = NULL
    /\ dir_stack' = << >>
    /\ exc' = NoExc
    /\ last' = [op |-> "Scanner", id |-> NULL, db_path |-> db_path]
    /\ UNCHANGED <<pc, todo, cur, curFiles, runs, disk, visited, fullRead, traversal,
                   orm, connection>>

NextWalk ==
    \/ \E db_path \in DbPaths : NewScanner(db_path)
    \/ WalkBegin
    \/ WalkDir
    \/ WalkLeave
    \/ WalkFile
    \/ WalkEnd

SpecWalk == InitWalk /\ [][NextWalk]_vars


\* ---- Database._sqlTransaction, statement by statement (src/db.py 164-174) ----

\* a connection whose ROLLBACK undoes nothing
noRollback(atBegin, now) == now

\* _sqlRollbackTransaction: ROLLBACK puts the tables back to what they were
\* at BEGIN
sqlRollbackTransaction(atBegin, now) == atBegin

\* the tables after each writing statement in the scope of updateDirHash, in
\* the order of execution
updateDirHashWrites(db, id, hash) ==
    LET old_dup_id == db.dirs[id].duplicate_id
        res == IF old_dup_id # NULL THEN sqlGetDirsFromDupID(db, old_dup_id) ELSE {}
        collapse == old_dup_id # NULL /\ groupCollapses(res)
        cleared == IF old_dup_id = NULL THEN db
                   ELSE IF collapse THEN sqlDirRemoveDupID(db, res)
                   ELSE sqlDirRemoveDupID(db, {id})
        db1 == IF collapse THEN sqlRemoveDuplicate(cleared, old_dup_id) ELSE cleared
        dir_id == sqlFindDupDirFromHash(db1, hash)
        dup_id == IF dir_id = NULL THEN NULL ELSE db1.dirs[dir_id].duplicate_id
        fresh == freshDuplicate(dir_id, dup_id)
        new_dup == IF fresh THEN lastRowID(db1.dups) ELSE dup_id
        inserted == sqlInsertDuplicate(db1, "dir")
        db2 == IF fresh THEN sqlUpdateDir(inserted, dir_id, NoHash, new_dup) ELSE db1
    IN (IF old_dup_id # NULL THEN << cleared >> ELSE << >>)
       \o (IF collapse THEN << db1 >> ELSE << >>)
       \o (IF fresh THEN << inserted, db2 >> ELSE << >>)
       \o << sqlUpdateDir(db2, id, hash, new_dup) >>

\* the same for the scope of updateFileHash (second pass, or a small file)
updateFileHashWrites(db, id, hash, hash_complete_arg) ==
    LET hash_complete == smallRule(db.files[id].size, hash, hash_complete_arg)
        file_id == seqGetDulpFile(db, db.files[id].size, NoHash, hash_complete)
        dup_id == IF file_id = NULL THEN NULL ELSE db.files[file_id].duplicate_id
        fresh == freshDuplicate(file_id, dup_id)
        new_dup == IF fresh THEN lastRowID(db.dups) ELSE dup_id
        inserted == sqlInsertDuplicate(db, "file")
        db1 == IF fresh THEN sqlUpdateFile(inserted, file_id, NoHash, NoHash, new_dup)
               ELSE db
    IN (IF fresh THEN << inserted, db1 >> ELSE << >>)
       \o << sqlUpdateFile(db1, id, hash, hash_complete, new_dup) >>

scopeWrites(db, sc) ==
    IF sc.op = "updateDirHash" THEN updateDirHashWrites(db, sc.id, sc.hash)
    ELSE updateFileHashWrites(db, sc.id, sc.hash, sc.hash_complete)

\* _sqlStartTransaction: BEGIN; inside a transaction SQLite refuses it
\* (OperationalError), and the call is made before the try of the scope
sqlStartTransaction(sc) ==
    IF in_transaction
    THEN /\ exc' = Raise("OperationalError")
         /\ UNCHANGED <<in_transaction, begun, scope>>
    ELSE /\ in_transaction' = TRUE
         /\ begun' = db0
         /\ scope' = sc
         /\ exc' = NoExc

\* updateDirHash(id, hash) with a hash that differs from the stored one
\* enters its scope
EnterDirScope(id, hash) ==
    /\ scope.op = "none"
    /\ id \in 1..Len(dirs)
    /\ ~hashUnchanged(dirs[id].hash, hash)
    /\ \A k \in 1..Len(updateDirHashWrites(db0, id, hash)) :
          \A d \in updateDirHashWrites(db0, id, hash)[k].dups : d.id <= MaxDupId
    /\ sqlStartTransaction([op |-> "updateDirHash", id |-> id, hash |-> hash,
                            hash_complete |-> NoHash, at |-> "body"])
    /\ last' = Call("BEGIN", id, hash, NoHash, NULL, 0, NULL)
    /\ UNCHANGED <<tables, rootDirID, scanner, orm>>

\* updateFileHash(id, hash, hash_complete) that has a complete hash (given, or
\* by the rule for small files) enters its scope
EnterFileScope(id, hash, hash_complete) ==
    /\ scope.op = "none"
    /\ id \in 1..Len(files)
    /\ smallRule(files[id].size, hash, hash_complete) # NoHash
    /\ \A k \in 1..Len(updateFileHashWrites(db0, id, hash, hash_complete)) :
          \A d \in updateFileHashWrites(db0, id, hash, hash_complete)[k].dups :
             d.id <= MaxDupId
    /\ sqlStartTransaction([op |-> "updateFileHash", id |-> id, hash |-> hash,
                            hash_complete |-> hash_complete, at |-> "body"])
    /\ last' = Call("BEGIN", id, hash, hash_complete, NULL, 0, NULL)
    /\ UNCHANGED <<tables, rootDirID, scanner, orm>>

\* what can end the body of a scope early: the store fails a statement (an I/O
\* error, a full disk, a locked database: sqlite3.OperationalError, a
\* sqlite3.Error), or an exception that is no sqlite3.Error is raised between
\* two statements (KeyboardInterrupt)
BodyErrors == {"OperationalError", "KeyboardInterrupt"}

\* "except sqlite3.Error"
isSqliteError(kind) == kind = "OperationalError"

\* the body of the scope runs: every statement is executed (failing = 0), or
\* the body ends with an error at statement number failing, after the
\* statements before it
RunBody ==
    /\ scope.at = "body"
    /\ \E w \in {scopeWrites(begun, scope)} :
          \E failing \in 0..Len(w), kind \in BodyErrors :
             /\ IF failing = 0
                THEN Store(Result(w[Len(w)], NoExc))
                ELSE Store(Result(IF failing = 1 THEN begun ELSE w[failing - 1],
                                  Raise(kind)))
             /\ last' = Call("body", scope.id, scope.hash, scope.hash_complete,
                             NULL, failing, NULL)
    /\ scope' = [scope EXCEPT !.at = "exit"]
    /\ UNCHANGED <<rootDirID, scanner, orm, in_transaction, begun>>

\* the scope is left: "except sqlite3.Error" rolls back and raises again,
\* "else" commits; any other exception leaves the generator through neither
\* branch
ExitScope ==
    /\ scope.at = "exit"
    /\ IF isSqliteError(exc.kind)
       THEN /\ \E r \in {sqlRollbackTransaction(begun, db0)} : Store(Result(r, exc))
            /\ in_transaction' = FALSE
       ELSE IF exc.kind = "none"
       THEN /\ UNCHANGED <<tables, exc>>
            /\ in_transaction' = FALSE
       ELSE UNCHANGED <<tables, exc, in_transaction>>
    /\ scope' = NoScope
    /\ last' = Call(scope.op, scope.id, scope.hash, scope.hash_complete, NULL,
                    last.members, NULL)
    /\ UNCHANGED <<rootDirID, scanner, orm, begun>>

\* Rows are inserted between the scopes; hashes are set only through the
\* scopes of updateDirHash and updateFileHash. The scope of updateDirHash
\* writes dirs and duplicates, that of updateFileHash files and duplicates: a
\* catalog gets sub-directories (fewer than MaxDirs - 1) or files, not both.
NextTxn ==
    \/ scope.op = "none" /\ rootDirID = NULL /\ CallSetRootDir(1)
    \/ /\ scope.op = "none" /\ files = << >> /\ Len(dirs) < MaxDirs - 1
       /\ CallInsertDir(Len(dirs) + 1, 1)
    \/ \E size \in Sizes :
          scope.op = "none" /\ Len(dirs) = 1 /\ CallInsertFile(Len(files) + 1, size, 1)
    \/ \E id \in 1..Len(dirs), hash \in HashVals : EnterDirScope(id, hash)
    \/ \E id \in 1..Len(files), hash \in HashVals, hash_complete \in HashVals \cup {NoHash} :
          EnterFileScope(id, hash, hash_complete)
    \/ RunBody
    \/ ExitScope

SpecTxn == Init /\ [][NextTxn]_vars

\* ---- core.py: entity records over the store (src/core.py) ----

\* a payload is the dict given to insert(): a function from field names to
\* values; a field with the value None is a field with NULL here
hasValue(payload) == {k \in DOMAIN payload : payload[k] # NULL}

DirIds(st) == {r.id : r \in st.dirs}
FileIds(st) == {r.id : r \in st.files}
DirById(st, id) == CHOOSE r \in st.dirs : r.id = id

\* the rowid SQLite gives to a row inserted without id
nextRowId(ids) == IF ids = {} THEN 1 ELSE SetMax(ids) + 1

\* the depth stored by the INSERT of Dir._sqlInsertQuery: the column list is
\* the payload's fields followed by depth, computed as
\* COALESCE((SELECT depth FROM dirs WHERE id = parent_dir), -1) + 1; when the
\* payload has a depth the column is named twice and SQLite stores the first
insertedDepth(st, payload) ==
    IF "depth" \in hasValue(payload) THEN payload["depth"]
    ELSE (IF payload["parent_dir"] \in DirIds(st)
          THEN DirById(st, payload["parent_dir"]).depth ELSE -1) + 1

StoreResult(st, e) == [st |-> st, exc |-> e]

\* the constraints of the table dirs: id is the primary key, path is unique,
\* parent_dir references dirs(id) (checked when the statement ends, so a row
\* may name itself), depth >= 0
dirsRejects(st, row) ==
    \/ row.id \in DirIds(st)
    \/ \E r \in st.dirs : r.path = row.path
    \/ row.parent_dir # NULL /\ row.parent_dir \notin DirIds(st) \cup {row.id}
    \/ row.depth < 0

\* db.query() around one statement: a statement that fails rolls the scope
\* back and the error is raised again; otherwise the scope commits
query(st, rejected, after) ==
    IF rejected THEN StoreResult(st, Raise("IntegrityError"))
    ELSE StoreResult(after, NoExc)

\* Dir.insert(payload, db): cls(**payload), then the INSERT of
\* Dir._sqlInsertQuery in one db.query() scope
DirInsert(st, payload) ==
    LET id == IF "id" \in hasValue(payload) THEN payload["id"]
              ELSE nextRowId(DirIds(st))
        row == [id |-> id, path |-> payload["path"],
                parent_dir |-> payload["parent_dir"],
                depth |-> insertedDepth(st, payload), hash |-> NoHash]
    IN query(st, dirsRejects(st, row), [st EXCEPT !.dirs = @ \cup {row}])

\* the depths a payload can name
DepthsGiven == {1, 2}

\* the payloads of Dir.insert: path and parent_dir, and possibly id and depth
DirPayloads ==
    UNION { [ {"path", "parent_dir"} \cup K -> 0..MaxIds ] :
            K \in SUBSET {"id", "depth"} }

CallDirInsert ==
    \E payload \in DirPayloads :
        /\ payload["path"] # NULL
        /\ "depth" \in DOMAIN payload => payload["depth"] \in DepthsGiven
        /\ "id" \in DOMAIN payload => payload["id"] # NULL
        /\ nextRowId(DirIds(store)) <= MaxIds
        /\ \E r \in {DirInsert(store, payload)} :
              /\ store' = r.st
              /\ exc' = r.exc
        /\ last' = [op |-> "Dir.insert", payload |-> payload]
        /\ UNCHANGED <<tables, rootDirID, scanner, obj, connection>>

\* the constraints of the table files: id is the primary key, path is unique,
\* parent_dir is not NULL and references dirs(id), size >= 0
filesRejects(st, row) ==
    \/ row.id \in FileIds(st)
    \/ \E r \in st.files : r.path = row.path
    \/ row.parent_dir \notin DirIds(st)
    \/ row.size < 0

\* File.insert(payload, db): ValueError without parent_dir, before the payload
\* is used; then Base.insert with the INSERT of Base._sqlInsertQuery
FileInsert(st, payload) ==
    IF "parent_dir" \notin hasValue(payload) THEN StoreResult(st, Raise("ValueError"))
    ELSE LET id == IF "id" \in hasValue(payload) THEN payload["id"]
                   ELSE nextRowId(FileIds(st))
             row == [id |-> id, path |-> payload["path"], size |-> payload["size"],
                     parent_dir |-> payload["parent_dir"]]
         IN query(st, filesRejects(st, row), [st EXCEPT !.files = @ \cup {row}])

\* the payloads of File.insert: path and size, with or without parent_dir
FilePayloads ==
    UNION { [ {"path", "size"} \cup K -> 0..MaxIds ] : K \in SUBSET {"parent_dir"} }

CallFileInsert ==
    \E payload \in FilePayloads :
        /\ payload["path"] # NULL /\ payload["size"] # NULL
        /\ nextRowId(FileIds(store)) <= MaxIds
        /\ \E r \in {FileInsert(store, payload)} :
              /\ store' = r.st
              /\ exc' = r.exc
        /\ last' = [op |-> "File.insert", payload |-> payload]
        /\ UNCHANGED <<tables, rootDirID, scanner, obj, connection>>

\* ---- core.py: one entity record (a Dir) in memory (src/core.py 29-170) ----

\* the instance cls(**row) built from a row of dirs
Instance(row) ==
    [cls |-> "Dir", id |-> row.id, path |-> row.path, parent_dir |-> row.parent_dir,
     hash |-> row.hash, updated |-> {}, deleted |-> FALSE]

\* Dir.fieldNames()
fieldNames == {"id", "path", "parent_dir", "depth", "hash", "duplicate_id"}

\* attribute names: fields, the attributes set by __post_init__, methods, and
\* names that start with "__"
Dunder == {"__class__", "__dict__", "__post_init__"}
Attrs == {"id", "path", "_updated", "_deleted", "update"} \cup Dunder

\* a set that takes every value, also one it holds
plainAdd(S, x) == [set |-> S \cup {x}, exc |-> NoExc]

\* SingleSet.add: KeyError if the value is in the set
SingleSetAdd(S, x) ==
    IF x \in S THEN [set |-> S, exc |-> Raise("KeyError")]
    ELSE [set |-> S \cup {x}, exc |-> NoExc]

\* a lookup that gives every attribute of every record
getDeleted(o, attr) == NoExc

\* Base.__getattribute__: a deleted record gives no attribute, except those
\* whose name starts with "__"
getattribute(o, attr) ==
    IF attr \notin Dunder /\ o.deleted THEN Raise("AttributeError") ELSE NoExc

ObjResult(o, e) == [obj |-> o, exc |-> e]

\* Base.__update(**kwargs): the keys in the order given; a key is added to
\* _updated before the attribute is set
RECURSIVE update_(_, _)
update_(o, kwargs) ==
    IF kwargs = << >> THEN ObjResult(o, NoExc)
    ELSE LET key == Head(kwargs)[1]
             value == Head(kwargs)[2]
             added == SingleSetAdd(o.updated, key)
         IN IF key \notin fieldNames THEN ObjResult(o, Raise("ValueError"))
            ELSE IF added.exc.kind # "none" THEN ObjResult(o, added.exc)
            ELSE update_([o EXCEPT ![key] = value, !.updated = added.set], Tail(kwargs))

\* the keyword arguments of updateValue and update: none, one keyword (a path,
\* a hash, or "nope", which is no field), or two different fields
Pairs ==
    { <<"path", v>> : v \in 1..MaxIds } \cup { <<"hash", <<"h1">> >>, <<"nope", 1>> }

Kwargs ==
    { << >> } \cup { <<p>> : p \in Pairs }
    \cup { pq \in Pairs \X Pairs : pq[1][1] # pq[2][1] /\ "nope" \notin {pq[1][1], pq[2][1]} }

\* the UPDATE of Base._sqlUpdateQuery: the staged fields of the row with the
\* record's id are set to the record's values; no row, no change
updatedRow(row, o) ==
    [row EXCEPT !.path = IF "path" \in o.updated THEN o.path ELSE @,
                !.hash = IF "hash" \in o.updated THEN o.hash ELSE @]

sqlUpdate(st, o) ==
    IF o.id \notin DirIds(st) THEN query(st, FALSE, st)
    ELSE LET row == DirById(st, o.id)
             others == st.dirs \ {row}
         IN query(st, \E r \in others : r.path = updatedRow(row, o).path,
                  [st EXCEPT !.dirs = others \cup {updatedRow(row, o)}])

\* the DELETE of Base._sqlDeleteQuery: refused while a Dir or a File has the
\* row as parent_dir
sqlDelete(st, o) ==
    query(st,
          \/ \E r \in st.dirs : r.parent_dir = o.id
          \/ \E r \in st.files : r.parent_dir = o.id,
          [st EXCEPT !.dirs = {r \in @ : r.id # o.id}])

RecordCall(op, kwargs) == [op |-> op, kwargs |-> kwargs]

\* Dir.insert(payload, db) returns the instance of the new row
RecInsert ==
    \E payload \in [ {"path", "parent_dir"} -> 0..MaxIds ] :
        /\ payload["path"] # NULL
        /\ nextRowId(DirIds(store)) <= MaxIds
        /\ \E r \in {DirInsert(store, payload)} :
              /\ store' = r.st
              /\ exc' = r.exc
              /\ obj' = IF r.exc.kind = "none"
                        THEN Instance(DirById(r.st, nextRowId(DirIds(store))))
                        ELSE obj
        /\ last' = [op |-> "Dir.insert", payload |-> payload]
        /\ UNCHANGED <<tables, rootDirID, scanner, connection>>

\* Dir.fromId(id, db) for a row that exists
RecFromId ==
    \E id \in DirIds(store) :
        /\ obj' = Instance(DirById(store, id))
        /\ exc' = NoExc
        /\ last' = RecordCall("fromId", << >>)
        /\ UNCHANGED <<tables, rootDirID, scanner, store, connection>>

\* getattr(record, attr)
RecGet ==
    \E attr \in Attrs :
        /\ obj.cls # "none"
        /\ exc' = getattribute(obj, attr)
        /\ last' = RecordCall("getattr", << <<attr, NULL>> >>)
        /\ UNCHANGED <<tables, rootDirID, scanner, orm, connection>>

\* record.updateValue(**kwargs)
RecUpdateValue ==
    \E kwargs \in Kwargs :
        /\ obj.cls # "none"
        /\ IF getattribute(obj, "updateValue").kind # "none"
           THEN exc' = getattribute(obj, "updateValue") /\ obj' = obj
           ELSE \E r \in {update_(obj, kwargs)} : obj' = r.obj /\ exc' = r.exc
        /\ last' = RecordCall("updateValue", kwargs)
        /\ UNCHANGED <<tables, rootDirID, scanner, store, connection>>

\* record.update(db, **kwargs) with at most one keyword: __update, then the
\* UPDATE in one db.query() scope (IndexError when nothing is staged), then
\* _clearUpdatedSet()
RecUpdate ==
    \E kwargs \in { k \in Kwargs : Len(k) <= 1 } :
        /\ obj.cls # "none"
        /\ IF getattribute(obj, "update").kind # "none"
           THEN exc' = getattribute(obj, "update") /\ UNCHANGED <<obj, store>>
           ELSE \E r \in {update_(obj, kwargs)} :
                   IF r.exc.kind # "none"
                   THEN obj' = r.obj /\ exc' = r.exc /\ store' = store
                   ELSE IF r.obj.updated = {}
                   THEN obj' = r.obj /\ exc' = Raise("IndexError") /\ store' = store
                   ELSE \E q \in {sqlUpdate(store, r.obj)} :
                           /\ store' = q.st
                           /\ exc' = q.exc
                           /\ obj' = IF q.exc.kind = "none"
                                     THEN [r.obj EXCEPT !.updated = {}]
                                     ELSE r.obj
        /\ last' = RecordCall("update", kwargs)
        /\ UNCHANGED <<tables, rootDirID, scanner, connection>>

\* record.delete(db): the DELETE in one db.query() scope, then _deleted = True
RecDelete ==
    /\ obj.cls # "none"
    /\ IF getattribute(obj, "delete").kind # "none"
       THEN exc' = getattribute(obj, "delete") /\ UNCHANGED <<obj, store>>
       ELSE \E q \in {sqlDelete(store, obj)} :
               /\ store' = q.st
               /\ exc' = q.exc
               /\ obj' = IF q.exc.kind = "none" THEN [obj EXCEPT !.deleted = TRUE]
                         ELSE obj
    /\ last' = RecordCall("delete", << >>)
    /\ UNCHANGED <<tables, rootDirID, scanner, connection>>

\* record._deleted = False: Base defines no __setattr__, and an assignment is
\* not looked up through __getattribute__
RecSetDeleted ==
    /\ obj.cls # "none"
    /\ obj' = [obj EXCEPT !.deleted = FALSE]
    /\ exc' = NoExc
    /\ last' = RecordCall("setattr", << <<"_deleted", FALSE>> >>)
    /\ UNCHANGED <<tables, rootDirID, scanner, store, connection>>

\* record.__post_init__(): the name starts with "__", so the method is found
\* on a deleted record too; it sets _updated and _deleted anew
RecPostInit ==
    /\ obj.cls # "none"
    /\ obj' = [obj EXCEPT !.updated = {}, !.deleted = FALSE]
    /\ exc' = getattribute(obj, "__post_init__")
    /\ last' = RecordCall("__post_init__", << >>)
    /\ UNCHANGED <<tables, rootDirID, scanner, store, connection>>

NextRecord ==
    \/ RecInsert
    \/ RecFromId
    \/ RecGet
    \/ RecUpdateValue
    \/ RecUpdate
    \/ RecDelete
    \/ RecSetDeleted
    \/ RecPostInit

SpecRecord == Init /\ [][NextRecord]_vars

\* Any sequence of inserts into one catalog: through Database (setRootDir,
\* insertDir, insertFile, with a new path or one that exists, a parent that
\* exists, None or one that is missing), or through the entity records of
\* core.py; a catalog is used in one of the two ways, and holds fewer than
\* MaxDirs rows (Database) or fewer than MaxIds rows (core.py) when a call is made.
NextInsert ==
    \/ /\ last.op \in {"none", "setRootDir", "insertDir", "insertFile"}
       /\ \E path \in {1, Len(dirs) + 1} : CallSetRootDir(path)
    \/ /\ last.op \in {"none", "setRootDir", "insertDir", "insertFile"}
       /\ Len(dirs) + Len(files) < MaxDirs
       /\ \E path \in {1, Len(dirs) + 1}, parent_id \in 0..(Len(dirs) + 2) :
             CallInsertDir(path, parent_id)
    \/ /\ last.op \in {"none", "setRootDir", "insertDir", "insertFile"}
       /\ Len(dirs) + Len(files) < MaxDirs
       /\ \E path \in {1, Len(files) + 1}, size \in Sizes, dir_id \in 0..(Len(dirs) + 1) :
             CallInsertFile(path, size, dir_id)
    \/ /\ last.op \in {"none", "Dir.insert", "File.insert"}
       /\ Cardinality(store.dirs) + Cardinality(store.files) < MaxIds
       /\ CallDirInsert
    \/ /\ last.op \in {"none", "Dir.insert", "File.insert"}
       /\ Cardinality(store.dirs) + Cardinality(store.files) < MaxIds
       /\ CallFileInsert

SpecInsert == Init /\ [][NextInsert]_vars


\* ---- Indexer (src/indexer.py) over the tables of core.py ----

\* Indexer.hash_functions: the targets that have a hash function
hash_functions == {"partial_hash", "image_hash", "full_hash"}

\* the value a target's hash function returns for a path
hashed(name, path) == <<name, path>>

\* the second argument of file_hasher: one name, or a list of names without
\* repetition; "not_supported_hash" has no hash function
TargetNames == hash_functions \cup {"not_supported_hash"}
Targets ==
    { [kind |-> "str", names |-> <<n>>] : n \in TargetNames }
    \cup { [kind |-> "list", names |-> <<n>>] : n \in TargetNames }
    \cup { [kind |-> "list", names |-> nm] :
             nm \in {p \in TargetNames \X TargetNames : p[1] # p[2]} }

\* Indexer.file_hasher(file, target): the mapping as a set of <<name, value>>
\* and the calls made to hash functions; hash_functions[target] with a list
\* is a TypeError (a list is not hashable), which is not the KeyError caught
file_hasher(path, target) ==
    LET name == target.names[1]
    IN IF target.kind = "list"
       THEN [hash |-> {}, calls |-> << >>, exc |-> Raise("TypeError")]
       ELSE IF name \notin hash_functions
       THEN [hash |-> {}, calls |-> << >>, exc |-> Raise("ValueError")]
       ELSE [hash |-> {<<name, hashed(name, path)>>}, calls |-> << <<name, path>> >>,
             exc |-> NoExc]

\* the ids of a set of rows in rowid order
RECURSIVE inRowidOrder(_)
inRowidOrder(ids) ==
    IF ids = {} THEN << >> ELSE <<SetMin(ids)>> \o inRowidOrder(ids \ {SetMin(ids)})

\* Dir.getFiles: SELECT * FROM files WHERE parent_dir = ?
getFiles(st, id) == inRowidOrder({r.id : r \in {f \in st.files : f.parent_dir = id}})

\* the rows of the recursive query of Dir._sqlGetChildenByDFSQuery in the
\* order they are made: a row, then the rows that have it as parent_dir
RECURSIVE cte(_, _, _)
cte(st, ids, level) ==
    IF ids = {} THEN << >>
    ELSE LET id == SetMin(ids)
         IN << [id |-> id, depth |-> level] >>
            \o cte(st, {r.id : r \in {d \in st.dirs : d.parent_dir = id}}, level + 1)
            \o cte(st, ids \ {id}, level)

\* SELECT * FROM cte ORDER BY depth DESC
RECURSIVE orderByDepthDesc(_, _)
orderByDepthDesc(rows, level) ==
    IF level = 0 THEN << >>
    ELSE SelectSeq(rows, LAMBDA r : r.depth = level) \o orderByDepthDesc(rows, level - 1)

\* Dir.getChildenByDFS: the ids of the rows; for a Dir that is its own
\* parent_dir the recursive query makes rows without end and the call does
\* not return
DfsResult(ids, e) == [ids |-> ids, exc |-> e]

getChildenByDFS(st, id) ==
    IF DirById(st, id).parent_dir = id THEN DfsResult(<< >>, Raise("NoReturn"))
    ELSE LET rows == cte(st, {id}, 1)
             sorted == orderByDepthDesc(rows, Len(rows))
         IN DfsResult([i \in 1..Len(sorted) |-> sorted[i].id], NoExc)

RECURSIVE filesOfEach(_, _)
filesOfEach(st, ids) ==
    IF ids = << >> THEN << >> ELSE getFiles(st, Head(ids)) \o filesOfEach(st, Tail(ids))

\* Indexer.get_files_in_dir(dir, recursive), run to its end: the ids yielded
get_files_in_dir(st, id, recursive) ==
    LET children == getChildenByDFS(st, id)
    IN IF ~recursive THEN DfsResult(getFiles(st, id), NoExc)
       ELSE DfsResult(getFiles(st, id) \o filesOfEach(st, children.ids), children.exc)

\* Dir.insert and File.insert that fill the catalog of the Indexer: the paths
\* are new, a directory's parent_dir is None, a Dir or the id the row gets, a
\* file's parent_dir is a Dir
IdxDirInsert ==
    \E parent_dir \in 0..(Cardinality(store.dirs) + 1) :
        /\ Cardinality(store.dirs) < MaxNodes - 1
        /\ last.op \in {"none", "Dir.insert"}
        /\ \E r \in {DirInsert(store, [path |-> Cardinality(store.dirs) + 1,
                                       parent_dir |-> parent_dir])} :
              store' = r.st /\ exc' = r.exc
        /\ last' = [op |-> "Dir.insert", id |-> Cardinality(store.dirs) + 1]
        /\ UNCHANGED <<tables, rootDirID, scanner, obj, connection>>

IdxFileInsert ==
    \E parent_dir \in DirIds(store) :
        /\ Cardinality(store.files) < MaxFiles
        /\ last.op \in {"Dir.insert", "File.insert"}
        /\ \E r \in {FileInsert(store, [path |-> Cardinality(store.files) + 1, size |-> 1,
                                        parent_dir |-> parent_dir])} :
              store' = r.st /\ exc' = r.exc
        /\ last' = [op |-> "File.insert", id |-> Cardinality(store.files) + 1]
        /\ UNCHANGED <<tables, rootDirID, scanner, obj, connection>>

CallFileHasher ==
    \E id \in FileIds(store), target \in Targets :
        /\ \E r \in {file_hasher(id, target)} :
              /\ exc' = r.exc
              /\ last' = [op |-> "file_hasher", id |-> id, target |-> target,
                          hash |-> r.hash, calls |-> r.calls]
        /\ UNCHANGED <<tables, rootDirID, scanner, orm, connection>>

CallGetChildenByDFS ==
    \E id \in DirIds(store) :
        /\ \E r \in {getChildenByDFS(store, id)} :
              /\ exc' = r.exc
              /\ last' = [op |-> "getChildenByDFS", id |-> id, ids |-> r.ids]
        /\ UNCHANGED <<tables, rootDirID, scanner, orm, connection>>

CallGetFilesInDir ==
    \E id \in DirIds(store), recursive \in BOOLEAN :
        /\ \E r \in {get_files_in_dir(store, id, recursive)} :
              /\ exc' = r.exc
              /\ last' = [op |-> "get_files_in_dir", id |-> id, recursive |-> recursive,
                          ids |-> r.ids]
        /\ UNCHANGED <<tables, rootDirID, scanner, orm, connection>>

NextIndexer ==
    \/ IdxDirInsert
    \/ IdxFileInsert
    \/ CallFileHasher
    \/ CallGetChildenByDFS
    \/ CallGetFilesInDir

SpecIndexer == Init /\ [][NextIndexer]_vars

\* ---- Scanner.hash over a scanned catalog, the rows in any order ----

OrderDirs == 3
OrderFiles == 3

\* the dirs table after scan(): row 1 is the root, every other row has an
\* earlier row as parent; nothing is hashed
ScannedDirs ==
    UNION { { d \in [1..n -> {DirRow(k, q) : k \in 1..n, q \in 0..(n - 1)}] :
                /\ d[1] = DirRow(1, NULL)
                /\ \A k \in 2..n : d[k].path = k /\ d[k].parent_id \in 1..(k - 1) } :
            n \in 1..OrderDirs }

\* the files of the scanned tree, file k with the bytes c[k] in a directory
ScannedFiles(n, c) ==
    { f \in [1..Len(c) -> {FileRow(k, z, q) : k \in 1..Len(c), z \in Sizes, q \in 1..n}] :
        \A k \in 1..Len(c) : f[k].path = k /\ f[k].size = c[k].size }

\* scan() has returned: a tree of up to OrderDirs directories and OrderFiles
\* files is in the catalog
InitOrder ==
    /\ dirs \in ScannedDirs
    /\ disk \in UNION { [1..m -> Contents] : m \in 0..OrderFiles }
    /\ files \in ScannedFiles(Len(dirs), disk)
    /\ dups = {}
    /\ rootDirID = 1
    /\ last = Step("scan", NULL) /\ exc = NoExc
    /\ dir_stack = << >> /\ pc = "idle"
    /\ todo = {} /\ cur = NULL /\ curFiles = {} /\ runs = 0
    /\ visited = << >> /\ fullRead = << >>
    /\ tree = << >> /\ stream = << >>
    /\ store = EmptyStore /\ obj = NoObj
    /\ in_transaction = FALSE /\ begun = DB(<< >>, << >>, {}) /\ scope = NoScope

\* the inner loop takes a row of getFilesInDir: the query has no ORDER BY, the
\* order of its rows is the store's choice
HashAnyFile(fileId) ==
    /\ pc = "hash" /\ cur # NULL /\ fileId \in curFiles
    /\ \E r \in {hash_file(db0, disk, fileId)} :
          /\ Store(r)
          /\ visited' = r.visited /\ fullRead' = r.fullRead
          /\ curFiles' = curFiles \ {fileId}
          /\ last' = Step("hash_file", fileId)
          /\ pc' = IF r.exc.kind = "none" THEN "hash" ELSE "idle"
          /\ cur' = IF r.exc.kind = "none" THEN cur ELSE NULL
          /\ todo' = IF r.exc.kind = "none" THEN todo ELSE {}
    /\ UNCHANGED <<rootDirID, dir_stack, runs, traversal, orm, connection, disk>>

NextOrder ==
    \/ HashBegin
    \/ \E dirID \in todo : HashEnterDir(dirID)
    \/ \E fileId \in curFiles : HashAnyFile(fileId)
    \/ HashLeaveDir
    \/ HashEnd

SpecOrder == InitOrder /\ [][NextOrder]_vars

\* ---- properties ----

MembersOf(d) ==
    IF d.type = "file" THEN FileMembers(files, d.id) ELSE DirMembers(dirs, d.id)

\* C1: reference-counting law: in every state every row of duplicates is
\* referenced by at least 2 rows of its own type.
C1_ReferenceCountingLaw ==
    \A d \in dups : Cardinality(MembersOf(d)) >= 2

\* ---- C2 ----

SameContent(f, a, b) ==
    /\ a # b
    /\ f[a].size = f[b].size
    /\ f[a].hash_complete # NoHash
    /\ f[a].hash_complete = f[b].hash_complete

SharedFileGroup(f, u, a, b) ==
    /\ f[a].duplicate_id # NULL
    /\ f[a].duplicate_id = f[b].duplicate_id
    /\ [id |-> f[a].duplicate_id, type |-> "file"] \in u

\* C2: after every file-hashing step of the scanner (the collision repair taken
\* as one step) any two rows of files with equal size and equal non-null
\* hash_complete have the same non-null duplicate_id, a row of duplicates of
\* type 'file'; so do k >= 2 files below 1024 bytes with the same partial hash.
C2_EqualCompleteHashSharesDuplicate ==
    \A a, b \in 1..Len(files) :
        SameContent(files, a, b) => SharedFileGroup(files, dups, a, b)

\* three files below 1024 bytes with one hash, the last of them just hashed
C2_Witness ==
    /\ last.op = "hash_file"
    /\ \E a, b, c \in 1..Len(files) :
          /\ a < b /\ b < c
          /\ files[a].size < SmallLimit
          /\ SameContent(files, a, b) /\ SameContent(files, b, c)
    /\ Cardinality(dups) = 1

\* ---- C3 ----

\* a scanned file of 1024 bytes or more that is not an image
LargePlain(i) == files[i].size >= SmallLimit /\ ~disk[files[i].path].image

\* no other scanned file holds the same bytes
UniqueContent(i) ==
    \A j \in 1..Len(files) : j # i => disk[files[j].path].full # disk[files[i].path].full

\* hash() has returned for the first time
FirstRunDone == last.op = "hash" /\ last.id = 1

\* C3: when the first run of Scanner.hash() has returned, two files of equal
\* size >= 1024 with equal partial hash both hold their own full hash as
\* hash_complete; with equal full hashes they reference one shared row of
\* duplicates of type 'file'; with different full hashes, a file whose bytes no
\* other file holds has duplicate_id NULL, and when no two files hold the same
\* bytes no row of type 'file' exists in duplicates.
C3_LargeFilesAfterFirstRun ==
    FirstRunDone =>
        /\ \A a, b \in 1..Len(files) :
              ( /\ a # b /\ LargePlain(a) /\ LargePlain(b)
                /\ files[a].size = files[b].size
                /\ disk[files[a].path].partial = disk[files[b].path].partial )
              => /\ files[a].hash_complete = disk[files[a].path].full
                 /\ files[b].hash_complete = disk[files[b].path].full
                 /\ IF disk[files[a].path].full = disk[files[b].path].full
                    THEN SharedFileGroup(files, dups, a, b)
                    ELSE /\ UniqueContent(a) => files[a].duplicate_id = NULL
                         /\ UniqueContent(b) => files[b].duplicate_id = NULL
        /\ (\A i \in 1..Len(files) : UniqueContent(i))
              => \A d \in dups : d.type # "file"

\* three large files with one partial hash, two of them with the same bytes,
\* after the first run: one group of two, the third file in no group
C3_Witness ==
    /\ FirstRunDone
    /\ \E a, b, c \in 1..Len(files) :
          /\ LargePlain(a) /\ LargePlain(b) /\ LargePlain(c) /\ a # b
          /\ disk[files[a].path].full = disk[files[b].path].full
          /\ disk[files[c].path].full # disk[files[a].path].full
          /\ SharedFileGroup(files, dups, a, b)
          /\ files[c].hash_complete = disk[files[c].path].full
          /\ files[c].duplicate_id = NULL

\* ---- C4 ----

\* the rows of files with this size and this partial hash
SamePartial(f, size, hash) ==
    {i \in 1..Len(f) : f[i].size = size /\ f[i].hash = hash}

\* the step is a call updateFileHash(F, p) without a complete hash
PartialCall(F, p) ==
    /\ last'.op = "updateFileHash" /\ last'.id = F /\ last'.hash = p
    /\ last'.hash_complete = NoHash

\* C4: a call updateFileHash(F, p) without a complete hash, F of size >= 1024,
\* when a row R of files with F's size and partial hash p exists, raises
\* PartialHashCollision with the id, path and dir_id of such a row R and
\* has_hash_complete = (R.hash_complete is not NULL), and leaves files and
\* duplicates as they were.
C4_PartialHashCollision ==
    [][\A F \in 1..Len(files), p \in HashVals :
         ( /\ PartialCall(F, p)
           /\ files[F].size >= SmallLimit
           /\ SamePartial(files, files[F].size, p) # {} )
         => /\ exc'.kind = "PartialHashCollision"
            /\ \E R \in SamePartial(files, files[F].size, p) :
                  /\ exc'.id = R
                  /\ exc'.path = files[R].path
                  /\ exc'.dir_id = files[R].dir_id
                  /\ exc'.has_hash_complete = (files[R].hash_complete # NoHash)
            /\ files' = files /\ dups' = dups]_vars

\* a collision was raised against another row that holds a complete hash
C4_Witness ==
    /\ last.op = "updateFileHash" /\ last.hash_complete = NoHash
    /\ exc.kind = "PartialHashCollision"
    /\ exc.id # last.id /\ exc.id \in 1..Len(files)
    /\ exc.has_hash_complete
    /\ files[exc.id].hash = last.hash

\* ---- C5 ----

\* the row of files with this path
FileOfPath(f, path) == CHOOSE i \in 1..Len(f) : f[i].path = path

\* C5: every file that a step of Scanner.hash() has read in full is one of
\* two different files of the same size >= 1024 with the same partial hash.
C5_FullReadOnlyOnCollision ==
    \A k \in 1..Len(fullRead) :
        LET i == FileOfPath(files, fullRead[k])
        IN \E j \in 1..Len(files) :
              /\ j # i
              /\ files[i].size >= SmallLimit
              /\ files[j].size = files[i].size
              /\ disk[files[j].path].partial = disk[files[i].path].partial

\* ---- C6 ----

\* C6: updateFileHash that gives a file in a group G a different hash_complete
\* detaches it: with 2 members G is deleted and the other member cleared, with
\* more only this file leaves; then the file joins the group of the files with
\* its new size and hash_complete, or has duplicate_id NULL when there is none.
C6_FileGroupLifecycle ==
    [][\A id \in 1..Len(files) :
         ( /\ last'.op = "updateFileHash" /\ last'.id = id /\ exc'.kind = "none"
           /\ files[id].duplicate_id # NULL
           /\ Cardinality(FileMembers(files, files[id].duplicate_id)) >= 2
           /\ files'[id].hash_complete # files[id].hash_complete )
         => LET G == files[id].duplicate_id
                mem == FileMembers(files, G)
                match == {j \in 1..Len(files) \ {id} :
                            /\ files[j].size = files[id].size
                            /\ files[j].hash_complete = files'[id].hash_complete}
            IN /\ IF match = {} THEN files'[id].duplicate_id = NULL
                  ELSE \A j \in match : SharedFileGroup(files', dups', id, j)
               /\ \A m \in mem \ ({id} \cup match) :
                     files'[m].duplicate_id = IF Cardinality(mem) = 2 THEN NULL ELSE G
               /\ (Cardinality(mem) = 2 /\ match = {})
                     => [id |-> G, type |-> "file"] \notin dups']_vars

\* ---- C7, C8, C9: updateDirHash ----

\* the step is a call updateDirHash(id, h) that returned
DirCall(id, h) ==
    /\ last'.op = "updateDirHash" /\ last'.id = id /\ last'.hash = h
    /\ exc'.kind = "none"

\* the other rows of dirs with this hash
OthersWithHash(d, id, h) == {i \in 1..Len(d) \ {id} : d[i].hash = h}

\* the rows of duplicates that the detaching of id leaves in the table
Kept(d, u, id) ==
    IF Cardinality(DirMembers(d, d[id].duplicate_id)) = 2
    THEN u \ {[id |-> d[id].duplicate_id, type |-> "dir"]}
    ELSE u

\* the attaching of id to the rows H with hash h; noMatch is the table of
\* duplicates expected when there is no such row
C7Cases(id, h, noMatch) ==
    LET Hs == OthersWithHash(dirs, id, h)
        d == dirs'[id].duplicate_id
    IN /\ dirs'[id].hash = h
       /\ \A H \in Hs :
             IF dirs[H].duplicate_id = NULL
             THEN /\ d # NULL /\ dirs'[H].duplicate_id = d
                  /\ [id |-> d, type |-> "dir"] \in dups'
                  /\ DirMembers(dirs', d) = {H, id}
                  /\ Cardinality(dups' \ Kept(dirs, dups, id)) = 1
             ELSE /\ d = dirs[H].duplicate_id /\ dirs'[H].duplicate_id = d
                  /\ [id |-> d, type |-> "dir"] \in dups'
                  /\ dups' \subseteq dups
       /\ Hs = {} => d = NULL /\ dups' = noMatch

\* C7 as stated: updateDirHash(id, h), h not the hash of id: a row H with hash
\* h and duplicate_id NULL gets, with id, one new row of duplicates of type
\* 'dir'; when H is in a group d, id joins d and no row is inserted; when no
\* row has hash h, id gets h and duplicate_id NULL and duplicates is unchanged.
C7_AttachAsStated ==
    [][\A id \in 1..Len(dirs), h \in DirHashVals :
         (DirCall(id, h) /\ dirs[id].hash # h) => C7Cases(id, h, dups)]_vars

\* C7: as above, but when no row has hash h duplicates loses the row of the
\* group id was in if that group had exactly 2 members, and is otherwise
\* unchanged: no row is inserted.
C7_Attach ==
    [][\A id \in 1..Len(dirs), h \in DirHashVals :
         (DirCall(id, h) /\ dirs[id].hash # h)
         => C7Cases(id, h, Kept(dirs, dups, id))]_vars

\* a directory has just left a group of 2 for a hash that no row had: the row
\* of its group is gone, the row of another group is still there
C7_Witness ==
    /\ last.op = "updateDirHash" /\ exc.kind = "none"
    /\ last.old_dup # NULL /\ last.members = 2 /\ last.match = NULL
    /\ dirs[last.id].hash = last.hash /\ dirs[last.id].duplicate_id = NULL
    /\ [id |-> last.old_dup, type |-> "dir"] \notin dups
    /\ dups # {}

\* the detaching of d1 from its group G; alone is what d1.duplicate_id is
\* expected to be when G had exactly 2 members
C8Cases(d1, h2, alone) ==
    LET G == dirs[d1].duplicate_id
        mem == DirMembers(dirs, G)
        Hs == OthersWithHash(dirs, d1, h2)
        joined == /\ dirs'[d1].duplicate_id # NULL
                  /\ \A H \in Hs : dirs'[H].duplicate_id = dirs'[d1].duplicate_id
    IN /\ dirs'[d1].hash = h2
       /\ IF Cardinality(mem) = 2
          THEN /\ \A m \in mem \ {d1} : dirs'[m].duplicate_id = NULL
               /\ alone
               /\ [id |-> G, type |-> "dir"] \in dups'
                     => DirMembers(dirs', G) = {d1} \cup Hs /\ Hs # {}
          ELSE /\ \A m \in mem \ {d1} : dirs'[m].duplicate_id = G
               /\ [id |-> G, type |-> "dir"] \in dups'
               /\ dirs'[d1].duplicate_id # G
               /\ IF Hs = {} THEN dirs'[d1].duplicate_id = NULL ELSE joined

\* C8 as stated: updateDirHash(d1, h2) on a member d1 of a group G with another
\* hash: when G had exactly 2 members its row is deleted and both former
\* members have duplicate_id NULL; when it had 3 or more only d1 leaves (NULL
\* unless it joins a group for h2) and the others still reference G; d1 has h2.
C8_DetachAsStated ==
    [][\A d1 \in 1..Len(dirs), h2 \in DirHashVals :
         (DirCall(d1, h2) /\ dirs[d1].hash # h2 /\ dirs[d1].duplicate_id # NULL)
         => C8Cases(d1, h2, dirs'[d1].duplicate_id = NULL)]_vars

\* C8: as above, but in a group of exactly 2 members too d1 has duplicate_id
\* NULL only when no other row has hash h2; otherwise it shares the group of
\* those rows, whose row may have the rowid of the deleted row of G.
C8_Detach ==
    [][\A d1 \in 1..Len(dirs), h2 \in DirHashVals :
         (DirCall(d1, h2) /\ dirs[d1].hash # h2 /\ dirs[d1].duplicate_id # NULL)
         => C8Cases(d1, h2,
                IF OthersWithHash(dirs, d1, h2) = {}
                THEN dirs'[d1].duplicate_id = NULL
                ELSE /\ dirs'[d1].duplicate_id # NULL
                     /\ \A H \in OthersWithHash(dirs, d1, h2) :
                           dirs'[H].duplicate_id = dirs'[d1].duplicate_id)]_vars

\* a directory has just left a group of 2 and made a new group with a row that
\* was in none: the new row of duplicates has the rowid of the deleted one
C8_Witness ==
    /\ last.op = "updateDirHash" /\ exc.kind = "none"
    /\ last.old_dup # NULL /\ last.members = 2 /\ last.match # NULL
    /\ dirs[last.id].hash = last.hash
    /\ dirs[last.id].duplicate_id = last.old_dup
    /\ DirMembers(dirs, last.old_dup) = {last.id, last.match}

\* C9: updateDirHash is idempotent: after a call updateDirHash(id, h) that
\* returned, the same call again leaves dirs and duplicates as they are; and
\* a call with the hash id already has changes nothing, id keeps its group.
C9_Idempotent ==
    [][\A id \in 1..Len(dirs), h \in DirHashVals :
         DirCall(id, h)
         => /\ updateDirHash(DB(dirs', files', dups'), id, h)
                 = Result(DB(dirs', files', dups'), NoExc)
            /\ dirs[id].hash = h => dirs' = dirs /\ dups' = dups]_vars

\* a call with the hash the directory already had, the directory in a group
C9_Witness ==
    /\ last.op = "updateDirHash" /\ exc.kind = "none"
    /\ last.old_dup # NULL /\ last.match # NULL
    /\ dirs[last.id].hash = last.hash
    /\ dirs[last.id].duplicate_id = last.old_dup
    /\ last.members = Cardinality(DirMembers(dirs, last.old_dup))
    /\ last.members = 3

\* ---- C10: dir_hash_update ----

\* id and its ancestors, upward, the root last
RECURSIVE ChainToRoot(_, _)
ChainToRoot(d, id) ==
    <<id>> \o (IF d[id].parent_id = NULL THEN << >> ELSE ChainToRoot(d, d[id].parent_id))

\* id and its ancestors, upward, as long as the next one has a stored hash
RECURSIVE ChainWhileHashed(_, _)
ChainWhileHashed(d, id) ==
    <<id>> \o (IF d[id].parent_id # NULL /\ d[d[id].parent_id].hash # NoHash
               THEN ChainWhileHashed(d, d[id].parent_id) ELSE << >>)

\* every directory of the walk holds the hash of its children as they are now
StoredHashesCurrent(d, f, u, walk) ==
    \A k \in 1..Len(walk) : d[walk[k]].hash = dir_hasher(DB(d, f, u), walk[k])

\* the directory has a file or a sub-directory
HasChild(d, f, id) ==
    \/ \E i \in 1..Len(f) : f[i].dir_id = id
    \/ \E j \in 1..Len(d) : d[j].parent_id = id

HashStep(F) == last'.op = "hash_file" /\ last'.id = F

\* C11: running the file-hashing step of hash() again on a file that already
\* holds its partial hash, its bytes unchanged, leaves the hash computed for its
\* parent directory (dir_hasher) as it was before the step.
C11_RehashKeepsDirHash ==
    [][\A F \in 1..Len(files) :
         ( /\ HashStep(F)
           /\ files[F].hash # NoHash
           /\ files[F].hash = disk[files[F].path].partial )
         => dir_hasher(DB(dirs', files', dups'), files[F].dir_id)
              = dir_hasher(db0, files[F].dir_id)]_vars

\* ---- C12 ----

\* the members of every group share the key of the group: files their size and
\* hash_complete, directories their hash
GroupsShareKey(d, f, u) ==
    \A g \in u :
        /\ g.type = "file" =>
              \A a, b \in FileMembers(f, g.id) :
                  f[a].size = f[b].size /\ f[a].hash_complete = f[b].hash_complete
        /\ g.type = "dir" =>
              \A a, b \in DirMembers(d, g.id) : d[a].hash = d[b].hash

\* C12: the members of one row of duplicates share its key after every hashing
\* operation, the re-hashing of a row whose hash has changed included: a call
\* of updateFileHash or updateDirHash made when the files of every 'file' group
\* have equal size and hash_complete, and the directories of every 'dir' group
\* equal hash, leaves them so.
C12_GroupSharesKey ==
    [][( /\ last'.op \in {"updateFileHash", "updateDirHash"}
         /\ GroupsShareKey(dirs, files, dups) )
       => GroupsShareKey(dirs', files', dups')]_vars

\* the same as a predicate of the state: it holds in every state of SpecDir
AllGroupsShareKey == GroupsShareKey(dirs, files, dups)

\* ---- C13 ----

\* C13: in every state of a sequence of scan() and hash() runs every row of
\* files with size < 1024 and a non-null hash has hash_complete equal to its
\* hash: updateFileHash stores both in the same update.
C13_SmallFileCompleteIsPartial ==
    \A i \in 1..Len(files) :
        (files[i].size < SmallLimit /\ files[i].hash # NoHash)
        => files[i].hash_complete = files[i].hash

\* hash() has just hashed a file below 1024 bytes, next to a larger file that
\* holds a partial hash only
C13_Witness ==
    /\ last.op = "hash_file" /\ exc.kind = "none"
    /\ files[last.id].size < SmallLimit
    /\ files[last.id].hash = disk[files[last.id].path].partial
    /\ files[last.id].hash_complete = files[last.id].hash
    /\ \E j \in 1..Len(files) :
          /\ files[j].size >= SmallLimit
          /\ files[j].hash # NoHash /\ files[j].hash_complete = NoHash

\* ---- C14 ----

\* hash() has returned
RunDone == last.op = "hash" /\ last.id # NULL

\* C14: when a run of Scanner.hash() has returned, a row of files has
\* hash_complete NULL only if its size is >= 1024 and no other row of files has
\* its size and its partial hash.
C14_NullCompleteOnlyUncollided ==
    RunDone =>
        \A i \in 1..Len(files) :
            files[i].hash_complete = NoHash
            => /\ files[i].size >= SmallLimit
               /\ \A j \in 1..Len(files) \ {i} :
                     ~(files[j].size = files[i].size /\ files[j].hash = files[i].hash)

\* hash() has returned and has left a hashed file of 1024 bytes or more without
\* a complete hash, among other files that hold one
C14_Witness ==
    /\ RunDone
    /\ \E i \in 1..Len(files) :
          /\ files[i].size >= SmallLimit
          /\ files[i].hash # NoHash /\ files[i].hash_complete = NoHash
    /\ Cardinality({j \in 1..Len(files) : files[j].hash_complete # NoHash}) >= 2

\* ---- C15 ----

\* C15: a call updateFileHash(F, p) without a complete hash, F of size >= 1024,
\* when no row of files has F's size and partial hash p, returns and writes
\* F.hash = p and nothing else: hash_complete and duplicate_id of F are what
\* they were (NULL stays NULL), no row of duplicates is created, and no other
\* row of files or dirs changes.
C15_PartialWriteOnly ==
    [][\A F \in 1..Len(files), p \in HashVals :
         ( /\ PartialCall(F, p)
           /\ files[F].size >= SmallLimit
           /\ SamePartial(files, files[F].size, p) = {} )
         => /\ exc'.kind = "none"
            /\ files'[F].hash = p
            /\ files'[F].hash_complete = files[F].hash_complete
            /\ files'[F].duplicate_id = files[F].duplicate_id
            /\ files[F].hash_complete = NoHash => files'[F].hash_complete = NoHash
            /\ files[F].duplicate_id = NULL => files'[F].duplicate_id = NULL
            /\ \A i \in 1..Len(files) \ {F} : files'[i] = files[i]
            /\ Len(files') = Len(files)
            /\ dups' = dups /\ dirs' = dirs]_vars

\* a file of 1024 bytes or more has just got its first partial hash, which the
\* other file, hashed before it, does not have
C15_Witness ==
    /\ last.op = "updateFileHash" /\ last.hash_complete = NoHash
    /\ exc.kind = "none" /\ last.match = NULL
    /\ files[last.id].size >= SmallLimit
    /\ files[last.id].hash = last.hash
    /\ files[last.id].hash_complete = NoHash
    /\ files[last.id].duplicate_id = NULL
    /\ \E j \in 1..Len(files) :
          /\ j # last.id /\ files[j].size = files[last.id].size
          /\ files[j].hash # NoHash /\ files[j].hash # last.hash

\* ---- C16 ----

\* the complete hash if non-null, else the hash, else the empty string
ChildDigest(hash, hash_complete) ==
    IF hash_complete # NoHash THEN hash_complete
    ELSE IF hash # NoHash THEN hash ELSE << >>

\* the lists of one digest per immediate child of id with rowid >= i, in
\* ascending order of rowid; a file and a directory of one rowid in either order
RECURSIVE ChildDigestLists(_, _, _, _)
ChildDigestLists(d, f, id, i) ==
    IF i > Len(f) /\ i > Len(d) THEN { << >> }
    ELSE LET fd == IF i <= Len(f) /\ f[i].dir_id = id
                   THEN << ChildDigest(f[i].hash, f[i].hash_complete) >> ELSE << >>
             dd == IF i <= Len(d) /\ d[i].parent_id = id
                   THEN << ChildDigest(d[i].hash, NoHash) >> ELSE << >>
         IN { h \o t : h \in {fd \o dd, dd \o fd},
                       t \in ChildDigestLists(d, f, id, i + 1) }

\* C16: getChildrenHashes(id) returns one digest per immediate child of id, in
\* ascending order of rowid, each the child's complete hash, else its hash,
\* else '', and dir_hasher(id) is the md5 of these joined by newline: every
\* dir_hash_update(id) of hash() computes and stores that value.
C16_ChildrenHashes ==
    [][last'.op = "dir_hash_update"
         => /\ exc'.kind = "none"
            /\ \E hs \in ChildDigestLists(dirs, files, last'.id, 1) :
                  dirs'[last'.id].hash = md5(join(hs))]_vars

\* the same for the directories that have a child
C16_ChildrenHashesNonEmpty ==
    [][(last'.op = "dir_hash_update" /\ HasChild(dirs, files, last'.id))
         => /\ exc'.kind = "none"
            /\ \E hs \in ChildDigestLists(dirs, files, last'.id, 1) :
                  dirs'[last'.id].hash = md5(join(hs))]_vars

\* ---- C17 ----

\* the child rows of a directory as the query selects them: id, hash and
\* hash_complete (NULL for a directory), and the table they come from
ChildRows(d, f, id) ==
    { [kind |-> "file", id |-> i, hash |-> f[i].hash,
       hash_complete |-> f[i].hash_complete] :
          i \in {k \in 1..Len(f) : f[k].dir_id = id} }
    \cup
    { [kind |-> "dir", id |-> j, hash |-> d[j].hash, hash_complete |-> NoHash] :
          j \in {k \in 1..Len(d) : d[k].parent_id = id} }

\* ascending id; of a file and a directory with one id the file is first
RowBefore(a, b) == a.id < b.id \/ (a.id = b.id /\ a.kind = "file" /\ b.kind = "dir")

RECURSIVE SortedDigests(_)
SortedDigests(S) ==
    IF S = {} THEN << >>
    ELSE LET m == CHOOSE a \in S : \A b \in S \ {a} : RowBefore(a, b)
         IN << ChildDigest(m.hash, m.hash_complete) >> \o SortedDigests(S \ {m})

Collides(F) ==
    /\ ~disk[files[F].path].image
    /\ files[F].size >= SmallLimit
    /\ SamePartial(files, files[F].size, disk[files[F].path].partial) # {}

\* C18: Scanner.hash() never lets PartialHashCollision out: when the first
\* updateFileHash of a file-hashing step collides, the step ends without
\* exception, a row with the file's size and partial hash that was reported
\* now holds a complete hash, and the file holds its partial and its full hash
\* (the second call has not raised).
C18_CollisionNeverSurfaces ==
    [][\A F \in 1..Len(files) :
         HashStep(F)
         => /\ exc'.kind # "PartialHashCollision"
            /\ Collides(F)
               => /\ exc'.kind = "none"
                  /\ \E R \in SamePartial(files, files[F].size, disk[files[F].path].partial) :
                        /\ files'[R].hash_complete # NoHash
                        /\ fullRead'[Len(fullRead')] = files[F].path
                        /\ files[R].hash_complete = NoHash
                           => fullRead' = <<files[R].path, files[F].path>>
                  /\ files'[F].hash = disk[files[F].path].partial
                  /\ files'[F].hash_complete = disk[files[F].path].full]_vars

\* a collision against another file that held no complete hash was repaired:
\* both files were read in full and hold different complete hashes
C18_Witness ==
    /\ last.op = "hash_file" /\ exc.kind = "none"
    /\ Len(fullRead) = 2 /\ fullRead[1] # fullRead[2]
    /\ files[last.id].path = fullRead[2]
    /\ files[last.id].hash_complete # NoHash
    /\ \E R \in 1..Len(files) :
          /\ files[R].path = fullRead[1]
          /\ files[R].hash = files[last.id].hash
          /\ files[R].hash_complete # NoHash
          /\ files[R].hash_complete # files[last.id].hash_complete

\* ---- C19 ----

\* scan() has raised at a fatal event
Fatal(e) == e.kind \in {"SymlinkFound", "UnexpectedPathType"}

\* C19: a symlink event makes scan() raise SymlinkFound and an event of an
\* unknown kind UnexpectedPathType; the event inserts nothing and leaves the
\* rows inserted before it in the tables, and once scan() has raised no event
\* is processed any more: no row of dirs or files is inserted or changed.
C19_FatalEvents ==
    [][/\ last'.op = "symlink" => exc'.kind = "SymlinkFound"
       /\ last'.op = "unknown" => exc'.kind = "UnexpectedPathType"
       /\ last'.op \in {"symlink", "unknown"}
             => /\ pc' = "failed"
                /\ dirs' = dirs /\ files' = files /\ dups' = dups
       /\ (pc = "failed" \/ Fatal(exc))
             => /\ dirs' = dirs /\ files' = files
                /\ last'.op \notin {"dir_handler", "file_handler", "symlink", "unknown"}]_vars

\* scan() has raised SymlinkFound inside a sub-directory after it had inserted
\* directories and files, which are still there
C19_Witness ==
    /\ pc = "failed" /\ exc.kind = "SymlinkFound" /\ last.op = "symlink"
    /\ dir_stack # << >>
    /\ Len(dirs) >= 2 /\ Len(files) >= 1

\* ---- C20 ----

\* the id on top of the stack, NULL when the stack is empty
TopOfStack(stack) == IF stack = << >> THEN NULL ELSE stack[Len(stack)][1]

\* C20: dir_handler(p), p not None, inserts a row of dirs whose parent_id is the
\* id on top of dir_stack (NULL when the stack is empty: the row is a root) and
\* pushes (new id, p); dir_handler(None) pops exactly one entry; file_handler
\* inserts a row of files whose dir_id is the id on top of the stack.
C20_StackDiscipline ==
    [][/\ (last'.op = "dir_handler" /\ last'.id # NULL)
           => /\ exc'.kind = "none"
              /\ Len(dirs') = Len(dirs) + 1
              /\ dirs'[Len(dirs')].parent_id = TopOfStack(dir_stack)
              /\ dir_stack' = Append(dir_stack, <<Len(dirs'), last'.id>>)
       /\ (last'.op = "dir_handler" /\ last'.id = NULL)
           => /\ dir_stack # << >>
              /\ dir_stack' = SubSeq(dir_stack, 1, Len(dir_stack) - 1)
       /\ last'.op = "file_handler"
           => /\ exc'.kind = "none"
              /\ Len(files') = Len(files) + 1
              /\ files'[Len(files')].dir_id = TopOfStack(dir_stack)
              /\ dir_stack' = dir_stack]_vars

\* the directory that scan() has entered and not yet left: the one on top of
\* the stack, or the root that scan() has set when the stack is empty
Innermost(stack, root) == IF stack = << >> THEN root ELSE stack[Len(stack)][1]

\* what the events of scan() do in the code: every row they insert has the
\* innermost directory as its parent, the root included, which is not on the stack
C20_ParentIsInnermost ==
    [][/\ (pc = "scan" /\ last'.op = "dir_handler" /\ last'.id # NULL)
           => /\ dirs'[Len(dirs')].parent_id = Innermost(dir_stack, rootDirID)
              /\ dirs'[Len(dirs')].parent_id # NULL
              /\ dir_stack' = Append(dir_stack, <<Len(dirs'), last'.id>>)
       /\ last'.op = "file_handler"
           => /\ files'[Len(files')].dir_id = Innermost(dir_stack, rootDirID)
              /\ files'[Len(files')].dir_id # NULL]_vars

\* ---- C21 ----

\* entry n lies below the directory p
RECURSIVE IsUnder(_, _, _)
IsUnder(t, n, p) ==
    /\ t[n].parent # NULL
    /\ (t[n].parent = p \/ IsUnder(t, t[n].parent, p))

\* enter events minus leave events among ev[i..j]
Balance(ev, i, j) ==
    Cardinality({k \in i..j : ev[k].type = "dir" /\ ev[k].p # NULL})
    - Cardinality({k \in i..j : ev[k] = Event("dir", NULL)})

\* the leave event that matches the enter event at i: the first one after which
\* as many directories have been left as entered, from i on
Matches(ev, i, j) ==
    /\ j > i /\ ev[j] = Event("dir", NULL)
    /\ Balance(ev, i, j) = 0
    /\ \A k \in i..(j - 1) : Balance(ev, i, k) > 0

\* the stream of a tree is well nested
WellNested(t, ev) ==
    /\ \A p \in 2..Len(t) :
          IF t[p].kind = "dir"
          THEN /\ Cardinality({i \in 1..Len(ev) : ev[i] = Event("dir", p)}) = 1
               /\ \A i \in 1..Len(ev) :
                     ev[i] = Event("dir", p)
                     => /\ Cardinality({j \in 1..Len(ev) : Matches(ev, i, j)}) = 1
                        /\ \A j \in 1..Len(ev) :
                              Matches(ev, i, j)
                              => \A k \in 1..Len(ev) :
                                    (ev[k].p # NULL /\ IsUnder(t, ev[k].p, p))
                                    <=> (i < k /\ k < j /\ ev[k].p # NULL)
          ELSE Cardinality({i \in 1..Len(ev) : ev[i] = Event("file", p)}) = 1
    /\ \A n \in 1..Len(ev) : Balance(ev, 1, n) >= 0
    /\ Balance(ev, 1, Len(ev)) = 0

\* C21: the events that dir_dfs yields for a finite tree without symlinks hold
\* for every sub-directory one ('dir', p) and one matching ('dir', None) after
\* it, the events of the entries below p (and no others) strictly between the
\* two, and in every prefix no more leaves than enters; so scan() never pops an
\* empty dir_stack (IndexError) and dir_stack is empty when scan() returns.
C21_WellNestedStream ==
    /\ WellNested(tree, dir_dfs(tree, 1))
    /\ exc.kind # "IndexError"
    /\ (last.op = "scan" /\ last.id = NULL) => dir_stack = << >>
    /\ pc = "scan" => Len(dir_stack) = Balance(dir_dfs(tree, 1), 1,
                                               Len(dir_dfs(tree, 1)) - Len(stream))

\* scan() has returned from a tree with a directory in a directory, and a file
\* that comes after a sub-directory of its directory
C21_Witness ==
    /\ last.op = "scan" /\ last.id = NULL /\ dir_stack = << >>
    /\ \E a, b \in 2..Len(tree) :
          tree[a].kind = "dir" /\ tree[b].kind = "dir" /\ tree[b].parent = a
    /\ \E a, b \in 2..Len(tree) :
          /\ a < b /\ tree[a].kind = "dir" /\ tree[b].kind = "file"
          /\ tree[b].parent = tree[a].parent

\* ---- C22 ----

\* the rows of dirs, of files, that hold the entry n of the tree
DirRowsOf(n) == {i \in 1..Len(dirs) : dirs[i].path = n}
FileRowsOf(n) == {i \in 1..Len(files) : files[i].path = n}

\* C22: when scan(root) has returned from a tree without symlinks, dirs holds
\* one row per directory of the tree and nothing else, the root with NULL
\* parent and every other directory with the row of its directory as parent;
\* files holds one row per regular file and nothing else, with its size, the
\* row of its directory as parent, NULL hashes and NULL duplicate_id; and there
\* is no Duplicate row.
C22_CatalogMirrorsTree ==
    (last.op = "scan" /\ last.id = NULL)
    => /\ Len(dirs) = Cardinality({n \in 1..Len(tree) : tree[n].kind = "dir"})
       /\ Len(files) = Cardinality({n \in 1..Len(tree) : tree[n].kind = "file"})
       /\ \A n \in 1..Len(tree) :
             IF tree[n].kind = "dir"
             THEN /\ Cardinality(DirRowsOf(n)) = 1
                  /\ FileRowsOf(n) = {}
                  /\ \A i \in DirRowsOf(n) :
                        IF n = 1 THEN dirs[i].parent_id = NULL
                        ELSE dirs[i].parent_id \in DirRowsOf(tree[n].parent)
             ELSE /\ Cardinality(FileRowsOf(n)) = 1
                  /\ DirRowsOf(n) = {}
                  /\ \A i \in FileRowsOf(n) :
                        /\ files[i].size = tree[n].size
                        /\ files[i].dir_id \in DirRowsOf(tree[n].parent)
                        /\ files[i].hash = NoHash
                        /\ files[i].hash_complete = NoHash
                        /\ files[i].duplicate_id = NULL
       /\ dups = {}

\* scan() has returned from a tree with a file in a sub-directory and a
\* directory in a sub-directory
C22_Witness ==
    /\ last.op = "scan" /\ last.id = NULL
    /\ \E n \in 1..Len(tree) : tree[n].kind = "file" /\ tree[n].parent # 1
    /\ \E n \in 1..Len(tree) : tree[n].kind = "dir" /\ tree[n].parent \notin {NULL, 1}

\* ---- C23 ----

\* C23: after any sequence of Dir inserts every Dir with parent_dir = P has
\* depth = depth(P) + 1 and every Dir with NULL parent_dir has depth 0.
C23_DepthFollowsParent ==
    \A r \in store.dirs :
        IF r.parent_dir = NULL THEN r.depth = 0
        ELSE /\ r.parent_dir \in DirIds(store)
             /\ r.depth = DirById(store, r.parent_dir).depth + 1

\* an insert whose payload names neither id nor depth, and as parent_dir NULL
\* or the id of a row that exists, keeps the depths right
C23_DepthWhenAssigned ==
    [][(/\ last'.op = "Dir.insert"
        /\ DOMAIN last'.payload = {"path", "parent_dir"}
        /\ last'.payload["parent_dir"] \in DirIds(store) \cup {NULL}
        /\ C23_DepthFollowsParent)
       => C23_DepthFollowsParent']_vars

\* ---- C24 ----

\* C24: a transaction scope opens with BEGIN (no transaction was open, one is
\* open in the body); when its body ends normally the scope commits, the
\* writes of the body stay and no error is raised; on any error raised in its
\* body the scope rolls back every write made in it and raises the same error
\* again; when the scope has been left, either way, no transaction is open,
\* and BEGIN never meets an open transaction: two scopes are never open at the
\* same time.
C24_TransactionScope ==
    [][/\ (last'.op = "BEGIN")
          => (~in_transaction /\ in_transaction' /\ begun' = db0 /\ tables' = tables)
       /\ scope.at = "body" => in_transaction'
       /\ (scope.at = "exit" /\ exc.kind = "none")
          => (tables' = tables /\ exc' = NoExc /\ ~in_transaction')
       /\ (scope.at = "exit" /\ exc.kind # "none")
          => (DB(dirs', files', dups') = begun /\ exc' = exc /\ ~in_transaction')
       /\ scope'.op = "none" => ~in_transaction']_vars

\* the same for the errors of the store only: a scope that is entered with no
\* transaction open and whose body ends normally or by a sqlite3.Error
C24_StoreErrorsRollBack ==
    [][/\ (scope.at = "exit" /\ exc.kind = "none")
          => (tables' = tables /\ exc' = NoExc /\ ~in_transaction')
       /\ (scope.at = "exit" /\ isSqliteError(exc.kind))
          => (DB(dirs', files', dups') = begun /\ exc' = exc /\ ~in_transaction')
       /\ (last'.op = "BEGIN" /\ ~in_transaction)
          => (in_transaction' /\ begun' = db0 /\ tables' = tables)]_vars

\* a scope has been left by a store error after its body had changed the tables
C24_RolledBack ==
    /\ last.op = "updateDirHash" /\ exc.kind = "OperationalError"
    /\ scope.op = "none" /\ ~in_transaction
    /\ db0 = begun
    /\ last.members >= 2
    /\ updateDirHashWrites(begun, last.id, last.hash)[last.members - 1] # begun

\* ---- C25 ----

\* the writes that a call of updateDirHash or updateFileHash makes in its scope
AllWrites == scopeWrites(begun, scope)[Len(scopeWrites(begun, scope))]

\* C25: the second-pass attach of updateFileHash (insert Duplicate, set
\* G.duplicate_id, set F's hashes and duplicate_id) and updateDirHash (detach
\* or collapse of the old group, insert Duplicate, set H.duplicate_id, set
\* id's hash and duplicate_id) are atomic: when every statement of the call
\* has succeeded all its writes are committed (and they are the writes of the
\* operation), and when a statement has failed none is: the tables are those
\* of before the call, so no Duplicate row or duplicate_id written by the
\* failed call remains; no transaction stays open.
C25_AtomicMutations ==
    [][(scope.at = "exit" /\ (exc.kind = "none" \/ isSqliteError(exc.kind)))
       => \/ /\ exc.kind = "none"
             /\ DB(dirs', files', dups') = AllWrites
             /\ AllWrites = (IF scope.op = "updateDirHash"
                             THEN updateDirHash(begun, scope.id, scope.hash).db
                             ELSE updateFileHash(begun, scope.id, scope.hash,
                                                 scope.hash_complete).db)
             /\ ~in_transaction'
          \/ /\ isSqliteError(exc.kind)
             /\ DB(dirs', files', dups') = begun
             /\ ~in_transaction']_vars

\* a call has failed after it had inserted a Duplicate row and set a
\* duplicate_id, and neither remains
C25_RolledBack ==
    /\ last.op \in {"updateDirHash", "updateFileHash"}
    /\ exc.kind = "OperationalError"
    /\ scope.op = "none" /\ ~in_transaction /\ db0 = begun
    /\ last.members >= 3
    /\ \E w \in {scopeWrites(begun, [op |-> last.op, id |-> last.id, hash |-> last.hash,
                                     hash_complete |-> last.hash_complete])} :
          /\ w[last.members - 1].dups # begun.dups
          /\ w[last.members - 1] # w[last.members - 2]

\* ---- C26 ----

\* Dir.path is unique and File.path is unique
PathsUnique ==
    /\ \A i, j \in 1..Len(dirs) : dirs[i].path = dirs[j].path => i = j
    /\ \A i, j \in 1..Len(files) : files[i].path = files[j].path => i = j
    /\ \A r, q \in store.dirs : r.path = q.path => r = q
    /\ \A r, q \in store.files : r.path = q.path => r = q

\* the insert that is called has a path that exists already
PathExists ==
    \/ /\ last'.op \in {"setRootDir", "insertDir"}
       /\ \E i \in 1..Len(dirs) : dirs[i].path = last'.id
    \/ /\ last'.op = "insertFile"
       /\ \E i \in 1..Len(files) : files[i].path = last'.id
    \/ /\ last'.op = "Dir.insert"
       /\ \E r \in store.dirs : r.path = last'.payload["path"]
    \/ /\ last'.op = "File.insert"
       /\ \E r \in store.files : r.path = last'.payload["path"]

\* the parent directory id of the insert that is called is the id of no row of
\* a table that has rows 1..n, or the ids ids
ParentMissing(n, ids) ==
    \/ /\ last'.op \in {"insertDir", "insertFile"}
       /\ last'.match \notin 1..n
    \/ /\ last'.op \in {"Dir.insert", "File.insert"}
       /\ last'.payload["parent_dir"] \notin ids

\* the insert that is called is not refused for a parent that is not set
ParentGiven ==
    \/ last'.op = "setRootDir"
    \/ last'.op \in {"insertDir", "insertFile"} /\ last'.match # NULL
    \/ last'.op = "Dir.insert"
    \/ last'.op = "File.insert" /\ "parent_dir" \in hasValue(last'.payload)

\* an insert of a directory whose parent is no row but is not None either
DirParentMissing(n, ids) ==
    \/ last'.op = "insertDir" /\ last'.match # NULL /\ ParentMissing(n, ids)
    \/ /\ last'.op = "Dir.insert" /\ last'.payload["parent_dir"] # NULL
       /\ ParentMissing(n, ids)

FileParentMissing ==
    /\ last'.op \in {"insertFile", "File.insert"}
    /\ ParentGiven
    /\ ParentMissing(Len(dirs), DirIds(store))

\* C26: an insert that violates a constraint of the store (a Dir or File path
\* that exists already, or a parent directory id that is the id of no existing
\* Dir) raises IntegrityError and leaves all tables as they were; so Dir.path
\* and File.path stay unique.
C26_ViolatingInsertRejected ==
    [][/\ (ParentGiven /\ (\/ PathExists
                           \/ DirParentMissing(Len(dirs), DirIds(store))
                           \/ FileParentMissing))
          => (exc'.kind = "IntegrityError" /\ tables' = tables /\ store' = store)
       /\ PathsUnique']_vars

\* the id that the row of the insert that is called receives
OwnId ==
    IF last'.op = "Dir.insert" /\ "id" \in hasValue(last'.payload)
    THEN last'.payload["id"]
    ELSE nextRowId(DirIds(store))

\* the same, for a directory's parent id that is neither the id of an existing
\* Dir nor the id that the new row receives
C26_RejectedUnlessOwnId ==
    [][/\ (ParentGiven /\ (\/ PathExists
                           \/ DirParentMissing(Len(dirs) + 1, DirIds(store) \cup {OwnId})
                           \/ FileParentMissing))
          => (exc'.kind = "IntegrityError" /\ tables' = tables /\ store' = store)
       /\ PathsUnique']_vars

\* ---- C27 ----

\* C27: an insert without parent is refused before any row is written:
\* insertDir and insertFile with None as parent id raise NoRootDirException,
\* File.insert with a payload without parent_dir, or with parent_dir None,
\* raises ValueError, and all tables are unchanged.
C27_NoParentRejected ==
    [][/\ (last'.op \in {"insertDir", "insertFile"} /\ last'.match = NULL)
          => (exc'.kind = "NoRootDirException" /\ tables' = tables /\ store' = store)
       /\ (/\ last'.op = "File.insert"
           /\ \/ "parent_dir" \notin DOMAIN last'.payload
              \/ last'.payload["parent_dir"] = NULL)
          => (exc'.kind = "ValueError" /\ tables' = tables /\ store' = store)]_vars

\* insertDir(path, None) has been refused on a catalog without root
C27_Witness ==
    /\ last.op = "insertDir" /\ last.match = NULL
    /\ rootDirID = NULL
    /\ exc.kind = "NoRootDirException"

\* File.insert without parent_dir has been refused on a catalog with a Dir
C27_FileRefused ==
    /\ last.op = "File.insert" /\ "parent_dir" \notin DOMAIN last.payload
    /\ store.dirs # {}
    /\ exc.kind = "ValueError"

\* ---- C28 ----

\* C28: constructing the store on a database path drops the tables and creates
\* the schema again only when the path does not exist, is ':memory:', or
\* overwrite is requested; on the path of a populated catalog, without
\* overwrite, all rows are kept.
C28_PopulatedCatalogKept ==
    [][(last'.op = "Scanner" /\ last'.db_path # ":memory:") => tables' = tables]_vars

\* ---- staging of record fields (src/core.py 15-27, 94-102, 147-160) ----

\* the call made by the step is updateValue or update on a usable record and
\* its i-th keyword is reached: every keyword before it was accepted
Reaches(i) ==
    /\ last'.op \in {"updateValue", "update"}
    /\ obj.cls # "none" /\ ~obj.deleted
    /\ i \in 1..Len(last'.kwargs)
    /\ \A j \in 1..(i - 1) : last'.kwargs[j][1] \in fieldNames \ obj.updated

\* C29: staging a value for a field that has a staged, not yet synced value
\* raises KeyError and keeps the first staged value; when update() has synced
\* the record the staged set is empty, and staging the field then succeeds.
C29_StagedOnce ==
    [][ /\ \A i \in 1..2 :
              Reaches(i) /\ last'.kwargs[i][1] \in obj.updated
              => /\ exc'.kind = "KeyError"
                 /\ obj'[last'.kwargs[i][1]] = obj[last'.kwargs[i][1]]
                 /\ last'.kwargs[i][1] \in obj'.updated
        /\ last'.op = "update" /\ exc'.kind = "none" => obj'.updated = {}
        /\ last.op = "update" /\ exc.kind = "none" /\ Reaches(1)
              /\ last'.kwargs[1][1] \in fieldNames
           => /\ exc'.kind # "KeyError"
              /\ obj'[last'.kwargs[1][1]] = last'.kwargs[1][2]
      ]_vars

\* a second value for a staged field was refused: the field is staged, the
\* record holds a value other than the refused one
C29_Witness ==
    /\ last.op = "updateValue" /\ exc.kind = "KeyError"
    /\ Len(last.kwargs) = 1
    /\ last.kwargs[1][1] = "path" /\ "path" \in obj.updated
    /\ obj.path # last.kwargs[1][2]

\* ---- deleted records (src/core.py 33-40, 162-170) ----

\* the step is a read of an attribute of the record or a call of one of its
\* methods
OnRecord ==
    last'.op \in {"getattr", "updateValue", "update", "delete", "__post_init__"}

\* the attribute that the step looks up on the record
LookedUp ==
    IF last'.op = "getattr" THEN last'.kwargs[1][1] ELSE last'.op

\* a delete() whose DELETE was refused leaves the record as it was
FailedDeleteKeeps ==
    last'.op = "delete" /\ ~obj.deleted /\ exc'.kind # "none"
    => obj' = obj /\ store' = store

\* C30 as stated: after a delete() that succeeded every attribute access and
\* every operation on the record raises AttributeError and the record does
\* not become usable again; a delete() that failed leaves the record usable.
C30_DeletedForGood ==
    [][ /\ obj.deleted /\ OnRecord => exc'.kind = "AttributeError" /\ obj'.deleted
        /\ FailedDeleteKeeps
      ]_vars

\* C30, amended: after a delete() that succeeded every read of an attribute
\* whose name does not start with "__", so every field and every call of
\* updateValue, update and delete, raises AttributeError and leaves the record
\* deleted and the store as it is; a delete() that failed leaves the record
\* usable.
C30_DeletedExceptDunder ==
    [][ /\ last'.op = "delete" /\ ~obj.deleted /\ exc'.kind = "none" => obj'.deleted
        /\ obj.deleted /\ OnRecord /\ LookedUp \notin Dunder
           => exc'.kind = "AttributeError" /\ obj' = obj /\ store' = store
        /\ FailedDeleteKeeps
      ]_vars

\* a field of a deleted record was read and the read was refused
C30_Witness ==
    /\ obj.deleted
    /\ last.op = "getattr" /\ last.kwargs[1][1] = "path"
    /\ exc.kind = "AttributeError"
    /\ obj.id \notin DirIds(store)

\* a delete() was refused by the store and the record is still usable
C30_FailedDelete ==
    /\ last.op = "delete" /\ exc.kind = "IntegrityError"
    /\ ~obj.deleted /\ obj.id \in DirIds(store)

\* ---- C31: identities ----

DupIds(u) == {d.id : d \in u}

\* the step is an updateDirHash that deleted the row of the group its
\* directory was in: the hash changes and the group had 2 members
Collapsed ==
    /\ last'.op = "updateDirHash" /\ exc'.kind = "none"
    /\ last'.hash # dirs[last'.id].hash
    /\ last'.old_dup # NULL /\ last'.members = 2

\* C31: each new row gets an id greater than every id assigned before in its
\* table: rows of dirs and files are added at the end, a new row of duplicates
\* has an id above the ids in the table, and the id of a Duplicate row that a
\* collapse deleted is not given to a new row.
C31_IdsMonotonic ==
    [][ /\ Len(dirs') >= Len(dirs) /\ Len(files') >= Len(files)
        /\ \A d \in dups' : d.id \notin DupIds(dups) => \A e \in dups : d.id > e.id
        /\ Collapsed => last'.old_dup \notin DupIds(dups')
      ]_vars

\* ---- C32: Indexer.file_hasher ----

Requested(target) == {target.names[i] : i \in 1..Len(target.names)}

\* the mapping has one entry per requested name, the value its hash function
\* gives for the path, and each of these functions was called once, with the
\* path
OneEntryEach(path, target, hash, calls) ==
    /\ hash = {<<n, hashed(n, path)>> : n \in Requested(target)}
    /\ Len(calls) = Cardinality(Requested(target))
    /\ \A n \in Requested(target) : \E i \in 1..Len(calls) : calls[i] = <<n, path>>

\* C32: file_hasher(file, targets) returns one entry per requested target,
\* made by one call of the target's hash function with the file's path; a
\* target without a hash function makes the call raise ValueError.
C32_FileHasher ==
    [][ last'.op = "file_hasher"
        => IF Requested(last'.target) \subseteq hash_functions
           THEN /\ exc'.kind = "none"
                /\ OneEntryEach(last'.id, last'.target, last'.hash, last'.calls)
           ELSE exc'.kind = "ValueError"
      ]_vars

\* what holds of the code: the same for a target given as one name
C32_OneName ==
    [][ last'.op = "file_hasher" /\ last'.target.kind = "str"
        => IF Requested(last'.target) \subseteq hash_functions
           THEN /\ exc'.kind = "none"
                /\ OneEntryEach(last'.id, last'.target, last'.hash, last'.calls)
           ELSE exc'.kind = "ValueError"
      ]_vars

\* ---- C40: Indexer.get_files_in_dir ----

\* the Dir r is id or has id above it, n steps of parent_dir at most
RECURSIVE Under(_, _, _, _)
Under(st, r, id, n) ==
    \/ r.id = id
    \/ /\ n > 0
       /\ r.parent_dir \in DirIds(st) \ {r.id}
       /\ Under(st, DirById(st, r.parent_dir), id, n - 1)

Subtree(st, id) == {r.id : r \in {d \in st.dirs : Under(st, d, id, Cardinality(st.dirs))}}

\* the sequence holds each member of S once and nothing else
EachOnce(ids, S) ==
    /\ Len(ids) = Cardinality(S)
    /\ \A x \in S : \E i \in 1..Len(ids) : ids[i] = x

\* C40: get_files_in_dir(dir, recursive=True) yields each File of dir and of
\* the Dirs below it once, and with recursive=False the files of dir itself.
C40_FilesOfSubtreeOnce ==
    [][ last'.op = "get_files_in_dir"
        => /\ exc'.kind = "none"
           /\ EachOnce(last'.ids,
                  {f.id : f \in {g \in store.files :
                      IF last'.recursive THEN g.parent_dir \in Subtree(store, last'.id)
                      ELSE g.parent_dir = last'.id}})
      ]_vars

\* what holds of the code: without recursion the files of dir, each once; with
\* it, on a Dir that is not its own parent, the files of dir twice and each
\* File of the Dirs below it once
C40_OwnFilesTwice ==
    [][ last'.op = "get_files_in_dir"
            /\ DirById(store, last'.id).parent_dir # last'.id
        => /\ exc'.kind = "none"
           /\ \A f \in store.files :
                Cardinality({i \in 1..Len(last'.ids) : last'.ids[i] = f.id})
                = IF f.parent_dir = last'.id THEN (IF last'.recursive THEN 2 ELSE 1)
                  ELSE IF last'.recursive /\ f.parent_dir \in Subtree(store, last'.id)
                  THEN 1 ELSE 0
      ]_vars

\* ---- C38: Dir.getChildenByDFS, Database.getDirs ----

\* the number of parent_dir steps from the Dir id up to the Dir top
RECURSIVE Hops(_, _, _)
Hops(st, id, top) ==
    IF id = top THEN 0 ELSE Hops(st, DirById(st, id).parent_dir, top) + 1

\* the positions of ids fall in depth below top, and a Dir is behind every Dir
\* below it
DeepestFirst(st, ids, top) ==
    /\ \A i, j \in 1..Len(ids) : i < j => Hops(st, ids[i], top) >= Hops(st, ids[j], top)
    /\ \A i, j \in 1..Len(ids) :
          (ids[i] # ids[j] /\ ids[i] \in Subtree(st, ids[j])) => i < j

\* a directory of the catalog that hash() has still to take is below dirID
BelowPending(d, pending, dirID) ==
    \E j \in pending : j # dirID /\ dirID \in {ChainToRoot(d, j)[k] : k \in 1..Len(ChainToRoot(d, j))}

\* C38: getChildenByDFS(d) returns d and every Dir below d, each once, in
\* descending depth, so that every Dir comes after all the Dirs below it; and
\* hash() computes the hash of a directory at the end of its turn only when
\* every directory below it has had its turn.
C38_DescendantsFirst ==
    [][ /\ last'.op = "getChildenByDFS"
            => /\ exc'.kind = "none"
               /\ EachOnce(last'.ids, Subtree(store, last'.id))
               /\ DeepestFirst(store, last'.ids, last'.id)
        /\ (last'.op = "getFilesInDir" /\ pc = "hash")
            => ~BelowPending(dirs, todo', last'.id)
      ]_vars

\* what holds of the code: the same, for a Dir that is not its own parent_dir
C38_UnlessOwnParent ==
    [][ (last'.op = "getChildenByDFS" /\ DirById(store, last'.id).parent_dir # last'.id)
            => /\ exc'.kind = "none"
               /\ EachOnce(last'.ids, Subtree(store, last'.id))
               /\ DeepestFirst(store, last'.ids, last'.id)
      ]_vars

\* what holds of hash(): a directory has its turn after every directory below
\* it, and its hash is computed after theirs
C38_HashOrder ==
    [][ /\ (last'.op = "getFilesInDir" /\ pc = "hash")
            => ~BelowPending(dirs, todo', last'.id)
        /\ (last'.op = "dir_hash_update" /\ pc = "hash" /\ exc'.kind = "none")
            => \A j \in 1..Len(dirs) :
                  (j # last'.id /\ last'.id \in {ChainToRoot(dirs, j)[k] : k \in 1..Len(ChainToRoot(dirs, j))})
                      => dirs[j].hash # NoHash
      ]_vars

\* ---- C37: a directory without children ----

\* C37: dir_hash_update on a directory that has no file and no sub-directory
\* raises nothing and stores the digest of the empty string, and hash() goes on
\* to the directories that are left.
C37_EmptyDirHashed ==
    [][ (last'.op = "dir_hash_update" /\ ~HasChild(dirs, files, last'.id))
        => /\ exc'.kind = "none"
           /\ dirs'[last'.id].hash = md5(<< >>)
           /\ pc' = "hash"
      ]_vars

\* what holds of the code: TypeError, nothing stored, and hash() is left with
\* the directories that were still to come unhashed
C37_EmptyDirAborts ==
    [][ (last'.op = "dir_hash_update" /\ ~HasChild(dirs, files, last'.id))
        => /\ exc'.kind = "TypeError"
           /\ dirs' = dirs /\ files' = files /\ dups' = dups
           /\ pc' = "idle" /\ todo' = {}
      ]_vars

\* ---- C34: directories of one hash ----

\* C34: after every updateDirHash call, in any sequence of such calls, two rows
\* of dirs with the same non-null hash have the same non-null duplicate_id: the
\* directories of one hash are one Duplicate group.
C34_EqualHashOneGroup ==
    \A i, j \in 1..Len(dirs) :
        (i # j /\ dirs[i].hash # NoHash /\ dirs[i].hash = dirs[j].hash)
            => /\ dirs[i].duplicate_id # NULL
               /\ dirs[i].duplicate_id = dirs[j].duplicate_id

\* a directory has left a group of three for a hash that a directory outside
\* of the group has: two groups, each of one hash
C34_Witness ==
    /\ last.op = "updateDirHash" /\ exc.kind = "none"
    /\ last.old_dup # NULL /\ last.members = 3 /\ last.match # NULL
    /\ dirs[last.id].hash = last.hash
    /\ dirs[last.id].duplicate_id # last.old_dup
    /\ Cardinality(DirMembers(dirs, last.old_dup)) = 2
    /\ Cardinality(DirMembers(dirs, dirs[last.id].duplicate_id)) = 2

\* ---- C39: duplicate_id refers to a row of duplicates ----

\* every non-null duplicate_id of a row of dirs or files is the id of a row of
\* duplicates
Resolved(d, f, u) ==
    /\ \A i \in 1..Len(d) :
          d[i].duplicate_id # NULL => \E r \in u : r.id = d[i].duplicate_id
    /\ \A i \in 1..Len(f) :
          f[i].duplicate_id # NULL => \E r \in u : r.id = f[i].duplicate_id

\* C39: after every call each non-null duplicate_id is the id of a row of
\* duplicates; a row of duplicates is deleted only by an updateDirHash call
\* that takes a directory out of a group of two, which clears the duplicate_id
\* of both members first, so that the call returns without error.
C39_DuplicateIdsResolve ==
    [][ /\ Resolved(dirs', files', dups')
        /\ last'.op = "updateDirHash" => exc'.kind = "none"
        /\ \A r \in dups \ dups' :
              /\ last'.op = "updateDirHash"
              /\ r.id = last'.old_dup /\ last'.members = 2
              /\ \A i \in DirMembers(dirs, r.id) : dirs'[i].duplicate_id # r.id
      ]_vars

\* the same in every state, whatever the calls
C39_Resolved == Resolved(dirs, files, dups)

\* a group of two has been deleted and a group made earlier is still there
C39_Witness ==
    /\ last.op = "updateDirHash" /\ exc.kind = "none"
    /\ last.old_dup # NULL /\ last.members = 2
    /\ \A r \in dups : r.id # last.old_dup
    /\ \E i \in 1..Len(dirs) : dirs[i].duplicate_id # NULL
    /\ DirMembers(dirs, last.old_dup) = {}

\* ---- C35: a second hash() run ----

\* every row of files and of dirs has a hash: a hash() run has come to its end
AllHashed(d, f) ==
    /\ (\A i \in 1..Len(d) : d[i].hash # NoHash)
    /\ (\A j \in 1..Len(f) : f[j].hash # NoHash)

\* C35: a second hash() run over a catalog that the first run has hashed
\* changes no row of files, dirs or duplicates, in none of its steps.
C35_SecondRunChangesNothing ==
    [][ (runs = 2 /\ pc = "hash" /\ AllHashed(dirs, files))
        => (dirs' = dirs /\ files' = files /\ dups' = dups) ]_vars

\* what a run has written to files stays: no hash, hash_complete or
\* duplicate_id of a file goes back to NULL or to another group, and no row of
\* duplicates of type 'file' is deleted
C35_FileWritesStay ==
    [][ /\ \A i \in 1..Len(files) :
              /\ files[i].hash_complete # NoHash => files'[i].hash_complete # NoHash
              /\ files[i].duplicate_id # NULL => files'[i].duplicate_id = files[i].duplicate_id
        /\ \A r \in dups : r.type = "file" => r \in dups'
      ]_vars

\* ---- C33: the hashes of the directories when hash() returns ----

\* C33: when hash() returns, every row of dirs holds the hash of its children
\* as they are then, also when the repair of a collided file has changed the
\* complete hash of a file in a directory that had its hash already.
C33_DirHashesCurrentAtReturn ==
    [][ (last'.op = "hash" /\ pc = "hash" /\ pc' = "idle")
        => \A k \in 1..Len(dirs') :
              dirs'[k].hash = dir_hasher(DB(dirs', files', dups'), k) ]_vars

\* the first hash() run has returned; the only file of a sub-directory is no
\* image, has 1024 bytes or more and a complete hash: it got it by the repair
\* made for a file of another directory, after the hash of its own directory
\* had been computed
C33_Witness ==
    /\ last.op = "hash" /\ last.id = 1 /\ pc = "idle" /\ exc.kind = "none"
    /\ \E e \in 1..Len(files) :
          /\ dirs[files[e].dir_id].parent_id # NULL
          /\ getFilesInDir(files, files[e].dir_id) = {e}
          /\ files[e].size >= SmallLimit /\ ~disk[files[e].path].image
          /\ files[e].hash_complete # NoHash
          /\ dirs[files[e].dir_id].hash = md5(files[e].hash_complete)

\* ---- C36: the order of hashing ----

\* the complete hash that the bytes on disk give file i: its hash for a file
\* below 1024 bytes and for an image, its full hash if another file has its
\* size and hash, none otherwise
ExpectedComplete(f, dsk, i) ==
    IF f[i].size < SmallLimit \/ dsk[f[i].path].image THEN dsk[f[i].path].partial
    ELSE IF \E j \in 1..Len(f) :
               /\ j # i /\ f[j].size = f[i].size
               /\ dsk[f[j].path].partial = dsk[f[i].path].partial
         THEN dsk[f[i].path].full
         ELSE NoHash

\* the catalog that the tree gives, whatever the order: the hashes of the
\* files from their bytes, the hash of every directory from its children,
\* files of one size and complete hash in one group and no other file in a
\* group, directories of one hash in one group and no other directory in one
OrderFree(d, f, u, dsk) ==
    /\ \A i \in 1..Len(f) :
          /\ f[i].hash = dsk[f[i].path].partial
          /\ f[i].hash_complete = ExpectedComplete(f, dsk, i)
    /\ \A k \in 1..Len(d) : d[k].hash = dir_hasher(DB(d, f, u), k)
    /\ \A i, j \in 1..Len(f) :
          i # j => ( (f[i].duplicate_id # NULL /\ f[i].duplicate_id = f[j].duplicate_id)
                     <=> SameContent(f, i, j) )
    /\ \A i \in 1..Len(f) :
          f[i].duplicate_id # NULL => \E j \in 1..Len(f) : SameContent(f, i, j)
    /\ \A i, j \in 1..Len(d) :
          i # j => ( (d[i].duplicate_id # NULL /\ d[i].duplicate_id = d[j].duplicate_id)
                     <=> d[i].hash = d[j].hash )
    /\ \A i \in 1..Len(d) :
          d[i].duplicate_id # NULL => \E j \in 1..Len(d) : j # i /\ d[j].hash = d[i].hash
    /\ \A r \in u : \/ r.type = "file" /\ FileMembers(f, r.id) # {}
                    \/ r.type = "dir" /\ DirMembers(d, r.id) # {}

\* C36: the catalog that the first hash() call over a scanned tree leaves is
\* the same for every order in which the directories of equal depth and the
\* files of a directory are taken: the one that the tree and the bytes of its
\* files determine, up to the ids of the rows of duplicates.
C36_OrderIndependent ==
    [][ (runs = 1 /\ pc = "hash" /\ pc' = "idle")
        => OrderFree(dirs', files', dups', disk) ]_vars

\* what holds of the code: the same for a call that returns
C36_WhenReturned ==
    [][ (runs = 1 /\ pc = "hash" /\ pc' = "idle" /\ last'.op = "hash")
        => OrderFree(dirs', files', dups', disk) ]_vars

\* the tree of a root with an empty directory and a directory that holds one
\* file, after a first hash() call that raised
EmptySiblingTree ==
    /\ Len(dirs) = 3
    /\ dirs[2].parent_id = 1 /\ dirs[3].parent_id = 1
    /\ Len(files) = 1 /\ files[1].dir_id = 3
    /\ runs = 1 /\ pc = "idle" /\ exc.kind = "TypeError"

\* the two catalogs that the two orders of the sub-directories leave of it:
\* the empty directory taken first, the file has no hash; taken last, it has
C36_EmptyTakenFirst == EmptySiblingTree /\ files[1].hash = NoHash
C36_EmptyTakenLast == EmptySiblingTree /\ files[1].hash # NoHash /\ dirs[3].hash # NoHash

====
